---------------------------- MODULE Spec2Model ----------------------------
(***************************************************************************)
(* A model of zebra-chain's synthetic chain constructor                    *)
(* (Block::partial_chain_strategy, fix_generated_transaction and           *)
(* find_valid_utxo_for_spend in zebra-chain/src/block/arbitrary.rs).       *)
(*                                                                         *)
(* Digests are modelled as tagged tuples over their preimage: a digest is  *)
(* equal to another one exactly when the hashed content is equal.  Every   *)
(* 32-byte value starts with a tag string, so two values with the same tag *)
(* always have the same shape.                                             *)
(***************************************************************************)
EXTENDS Integers, Sequences, FiniteSets, TLC

(***************************************************************************)
(* Bounds of the model.                                                    *)
(***************************************************************************)
\* the largest `count` handed to partial_chain_strategy
MaxBlocks == 2
\* the largest number of candidate transactions in one candidate block
MaxTransactions == 2
\* the largest start height of a run (LedgerState.height)
MaxStartHeight == 2
\* the largest amount an Amount<NonNegative> can hold (MAX_MONEY, scaled down)
MaxMoney == 2

(***************************************************************************)
(* Program constants.                                                      *)
(***************************************************************************)
\* `if attempts > 100` in find_valid_utxo_for_spend
MaxAttempts == 100

(***************************************************************************)
(* 32-byte values.                                                         *)
(***************************************************************************)
Bytes32(n) == <<"bytes", n>>

\* [0u8; 32]
ZeroBytes == Bytes32(0)

\* [0u8; 32] with byte 0 set to 1
PreHeartwoodPlaceholder == Bytes32(1)

\* GENESIS_PREVIOUS_BLOCK_HASH
GenesisPreviousBlockHash == ZeroBytes

\* an arbitrary previous block hash of a candidate header (any::<Hash>())
ArbitraryPreviousBlockHash == Bytes32(9)

\* an arbitrary merkle root of a candidate header (any::<merkle::Root>())
ArbitraryMerkleRoot == Bytes32(8)

\* the commitment bytes a candidate header can carry (any::<[u8; 32]>())
CandidateCommitments == {ZeroBytes, Bytes32(7)}

(***************************************************************************)
(* Outpoints and inputs.                                                   *)
(***************************************************************************)
OutPoint(hash, index) == [hash |-> hash, index |-> index]

\* Input::outpoint() == None: a coinbase input has no prior-output reference
NoOutPoint == OutPoint(<<"none">>, 0)

\* the prior-output reference a candidate PrevOut input is generated with
CandidateOutPoint == OutPoint(<<"candidate">>, 0)

CoinbaseInput(height) == [outpoint |-> NoOutPoint, height |-> height]

PrevOutInput(outpoint) == [outpoint |-> outpoint, height |-> -1]

\* Input::set_outpoint
SetOutPoint(input, outpoint) == [input EXCEPT !.outpoint = outpoint]

(***************************************************************************)
(* Helpers on sequences.                                                   *)
(***************************************************************************)
RECURSIVE SumSeq(_)
SumSeq(s) == IF s = <<>> THEN 0 ELSE Head(s) + SumSeq(Tail(s))

(***************************************************************************)
(* Transactions.  The fields are the ones the constructor reads or writes: *)
(* the transparent inputs and outputs (an output is its value), the number *)
(* of Sapling spends, the Sapling and Orchard note commitments, and the    *)
(* value balances of the two shielded pools (positive: value leaves the    *)
(* pool, negative: value enters it).                                       *)
(***************************************************************************)
Tx(inputs, outputs, spends, sapling, orchard, saplingVb, orchardVb) ==
    [inputs |-> inputs, outputs |-> outputs, sapling_spends |-> spends,
     sapling_note_commitments |-> sapling, orchard_note_commitments |-> orchard,
     sapling_value_balance |-> saplingVb, orchard_value_balance |-> orchardVb]

\* Transaction::hash: the transaction id commits to the whole transaction
TxHash(tx) == <<"txid", tx>>

\* Transaction::has_shielded_inputs: Sapling spends or Orchard actions
HasShieldedInputs(tx) ==
    tx.sapling_spends > 0 \/ tx.orchard_note_commitments # <<>>

\* Transaction::has_shielded_outputs: Sapling outputs or Orchard actions
HasShieldedOutputs(tx) ==
    tx.sapling_note_commitments # <<>> \/ tx.orchard_note_commitments # <<>>

\* Transaction::has_transparent_or_shielded_inputs
HasTransparentOrShieldedInputs(tx) ==
    tx.inputs # <<>> \/ HasShieldedInputs(tx)

\* Transaction::is_coinbase: exactly one input, and it is a coinbase input
IsCoinbase(tx) ==
    Len(tx.inputs) = 1 /\ tx.inputs[1].outpoint = NoOutPoint

(***************************************************************************)
(* Coinbase spend restrictions.                                            *)
(***************************************************************************)
SomeTransparentOutputs == [kind |-> "SomeTransparentOutputs", spend_height |-> -1]

OnlyShieldedOutputs(spend_height) ==
    [kind |-> "OnlyShieldedOutputs", spend_height |-> spend_height]

\* Transaction::coinbase_spend_restriction
CoinbaseSpendRestriction(tx, spend_height) ==
    IF tx.outputs = <<>> THEN OnlyShieldedOutputs(spend_height)
    ELSE SomeTransparentOutputs

(***************************************************************************)
(* The UTXO ledger: a map from outpoints to ordered UTXOs.                 *)
(***************************************************************************)
OrderedUtxo(output, height, from_coinbase, tx_index_in_block) ==
    [output |-> output, height |-> height, from_coinbase |-> from_coinbase,
     tx_index_in_block |-> tx_index_in_block]

\* HashMap::new()
EmptyUtxos == [op \in {} |-> OrderedUtxo(0, 0, FALSE, 0)]

\* HashMap::remove
RemoveUtxo(utxos, outpoint) ==
    [op \in (DOMAIN utxos) \ {outpoint} |-> utxos[op]]

\* HashMap::extend: the new entries replace entries with the same key
ExtendUtxos(utxos, new) ==
    [op \in (DOMAIN utxos) \cup (DOMAIN new) |->
        IF op \in DOMAIN new THEN new[op] ELSE utxos[op]]

\* transparent::new_transaction_ordered_outputs
NewTransactionOrderedOutputs(tx, hash, tx_index_in_block, height) ==
    [op \in {OutPoint(hash, i - 1) : i \in DOMAIN tx.outputs} |->
        OrderedUtxo(tx.outputs[op.index + 1], height, IsCoinbase(tx),
                    tx_index_in_block)]

(***************************************************************************)
(* The injected validity checks.                                           *)
(***************************************************************************)
\* the number of blocks before a coinbase output can be spent under CoinbaseRule
CoinbaseMaturity == 1

\* allow_all_transparent_coinbase_spends returning Err(())
AllowAllTransparentCoinbaseSpends_err(outpoint, restriction, utxo) == FALSE

\* allow_all_transparent_coinbase_spends
AllowAllTransparentCoinbaseSpends(outpoint, restriction, utxo) == TRUE

\* a check shaped like the consensus rule: an output of a coinbase
\* transaction is spendable only by a transaction without transparent
\* outputs, and only once it is mature
CoinbaseRule(outpoint, restriction, utxo) ==
    \/ ~utxo.from_coinbase
    \/ /\ restriction.kind = "OnlyShieldedOutputs"
       /\ restriction.spend_height >= utxo.height + CoinbaseMaturity

\* a check that tells the restrictions apart: an output of a coinbase
\* transaction is spendable only by a transaction without transparent
\* outputs, any other output only by a transaction with transparent outputs
SeparatingRule(outpoint, restriction, utxo) ==
    utxo.from_coinbase <=> restriction.kind = "OnlyShieldedOutputs"

Checks == {"AllowAll", "CoinbaseRule", "SeparatingRule"}

\* check_transparent_coinbase_spend(outpoint, restriction, utxo).is_ok()
CheckTransparentCoinbaseSpend(check, outpoint, restriction, utxo) ==
    IF check = "AllowAll"
    THEN AllowAllTransparentCoinbaseSpends(outpoint, restriction, utxo)
    ELSE IF check = "CoinbaseRule"
    THEN CoinbaseRule(outpoint, restriction, utxo)
    ELSE SeparatingRule(outpoint, restriction, utxo)

(***************************************************************************)
(* find_valid_utxo_for_spend.  `first` is the entry utxos.iter().next()    *)
(* yields; the map is not changed during the call, so every turn of the    *)
(* loop sees the same entry.  The result holds the selected outpoint       *)
(* (NoOutPoint for None), the transaction's outputs and the restriction as *)
(* the call leaves them, and the number of calls of the validity check.    *)
(***************************************************************************)
SelectorResult(outpoint, outputs, restriction, probes, first) ==
    [outpoint |-> outpoint, outputs |-> outputs, spend_restriction |-> restriction,
     probes |-> probes, candidate |-> first]

\* one turn of the loop on the candidate `first`: "selected" when the first
\* check passes, "shielded" when the check passes with the transparent
\* outputs deleted, "failed" otherwise
SelectorTurn(tx, spend_restriction, spend_height, utxos, first, check) ==
    IF CheckTransparentCoinbaseSpend(check, first, spend_restriction, utxos[first])
    THEN "selected"
    ELSE IF /\ HasShieldedOutputs(tx)
            /\ CheckTransparentCoinbaseSpend(check, first,
                                             OnlyShieldedOutputs(spend_height),
                                             utxos[first])
    THEN "shielded"
    ELSE "failed"

\* the state of the loop: whether it has been left, the attempts and the
\* calls of the validity check so far, and how it was left
LoopState(left, attempts, probes, outcome) ==
    [left |-> left, attempts |-> attempts, probes |-> probes, outcome |-> outcome]

\* SelectorStep without `if attempts > 100 { return None; }`
SelectorStep_never_gives_up(turn, turn_probes, loop) ==
    IF loop.left THEN loop
    ELSE LoopState(turn # "failed", loop.attempts + 1, loop.probes + turn_probes, turn)

\* one turn of `while let Some(..) = utxos.iter().next()` on a ledger that
\* is not empty; `turn` is what the turn finds for the candidate, with
\* `turn_probes` calls of the validity check
SelectorStep(turn, turn_probes, loop) ==
    IF loop.left THEN loop
    ELSE IF loop.attempts + 1 > MaxAttempts
    THEN LoopState(TRUE, loop.attempts + 1, loop.probes, "gave up")
    ELSE LoopState(turn # "failed", loop.attempts + 1, loop.probes + turn_probes, turn)

\* n turns of the loop, one after the other
RECURSIVE SelectorLoop(_, _, _, _)
SelectorLoop(turn, turn_probes, n, loop) ==
    IF n = 0 \/ loop.left THEN loop
    ELSE IF n = 1 THEN SelectorStep(turn, turn_probes, loop)
    ELSE SelectorLoop(turn, turn_probes, n - (n \div 2),
                      SelectorLoop(turn, turn_probes, n \div 2, loop))

\* what the call returns when the loop is left in state `loop`
SelectorReturn(tx, spend_restriction, spend_height, first, loop) ==
    IF loop.outcome = "selected"
    THEN SelectorResult(first, tx.outputs, spend_restriction, loop.probes, first)
    ELSE IF loop.outcome = "shielded"
    THEN SelectorResult(first, <<>>, OnlyShieldedOutputs(spend_height),
                        loop.probes, first)
    ELSE SelectorResult(NoOutPoint, tx.outputs, spend_restriction, loop.probes, first)

\* the loop on the candidate `first`, for which every turn finds `turn`
SelectorRun(tx, spend_restriction, spend_height, first, turn) ==
    SelectorReturn(tx, spend_restriction, spend_height, first,
        SelectorLoop(turn,
                     IF turn = "selected" THEN 1
                     ELSE IF HasShieldedOutputs(tx) THEN 2 ELSE 1,
                     MaxAttempts + 1, LoopState(FALSE, 0, 0, "failed")))

\* The map and the arguments of the check are the same in every turn, so
\* every turn finds the same for the same candidate; the loop is left after
\* at most MaxAttempts + 1 turns.
FindValidUtxoForSpend(tx, spend_restriction, spend_height, utxos, first, check) ==
    IF DOMAIN utxos = {}
    THEN SelectorResult(NoOutPoint, tx.outputs, spend_restriction, 0, NoOutPoint)
    ELSE SelectorRun(tx, spend_restriction, spend_height, first,
                     SelectorTurn(tx, spend_restriction, spend_height, utxos,
                                  first, check))

(***************************************************************************)
(* The chain value pools.                                                  *)
(***************************************************************************)
\* ValueBalance::zero()
ZeroValueBalance == [transparent |-> 0, sprout |-> 0, sapling |-> 0, orchard |-> 0]

\* the constraint of Amount<NonNegative>
ValidAmount(a) == 0 <= a /\ a <= MaxMoney

ValidValueBalance(pools) ==
    /\ ValidAmount(pools.transparent)
    /\ ValidAmount(pools.sprout)
    /\ ValidAmount(pools.sapling)
    /\ ValidAmount(pools.orchard)

\* the error of a value balance with a balance that is not a valid amount:
\* the pool and the balance
ValueBalanceError(pools) ==
    IF ~ValidAmount(pools.transparent) THEN <<"Transparent", pools.transparent>>
    ELSE IF ~ValidAmount(pools.sprout) THEN <<"Sprout", pools.sprout>>
    ELSE IF ~ValidAmount(pools.sapling) THEN <<"Sapling", pools.sapling>>
    ELSE <<"Orchard", pools.orchard>>

\* the value of the outputs spent by the transparent inputs of tx
SpentValue(tx, spent_outputs) ==
    SumSeq([i \in DOMAIN tx.inputs |->
               IF tx.inputs[i].outpoint \in DOMAIN spent_outputs
               THEN spent_outputs[tx.inputs[i].outpoint] ELSE 0])

\* outputs that exceed the remaining input value are set to zero
RECURSIVE FixOutputValues(_, _)
FixOutputValues(outputs, remaining) ==
    IF outputs = <<>> THEN [outputs |-> <<>>, remaining |-> remaining]
    ELSE IF Head(outputs) <= remaining
    THEN LET rest == FixOutputValues(Tail(outputs), remaining - Head(outputs))
         IN  [outputs |-> <<Head(outputs)>> \o rest.outputs, remaining |-> rest.remaining]
    ELSE LET rest == FixOutputValues(Tail(outputs), remaining)
         IN  [outputs |-> <<0>> \o rest.outputs, remaining |-> rest.remaining]

\* value taken from a shielded pool that exceeds the pool is set to zero
FixShieldedInput(value_balance, pool) ==
    IF value_balance > pool THEN 0 ELSE value_balance

\* value put into a shielded pool that exceeds the remaining value is set to zero
FixShieldedOutput(value_balance, remaining) ==
    IF value_balance < 0 /\ -value_balance > remaining THEN 0 ELSE value_balance

Positive(v) == IF v > 0 THEN v ELSE 0

Negative(v) == IF v < 0 THEN -v ELSE 0

\* the transaction with its remaining value fixed: not done for a coinbase
\* transaction, whose outputs are not paid by its inputs
FixRemainingValue(tx, saplingIn, orchardIn, fixedOut) ==
    IF IsCoinbase(tx)
    THEN [tx EXCEPT !.sapling_value_balance = saplingIn,
                    !.orchard_value_balance = orchardIn]
    ELSE [tx EXCEPT !.outputs = fixedOut.outputs,
                    !.sapling_value_balance =
                        FixShieldedOutput(saplingIn, fixedOut.remaining),
                    !.orchard_value_balance =
                        FixShieldedOutput(orchardIn,
                            fixedOut.remaining
                            - Negative(FixShieldedOutput(saplingIn, fixedOut.remaining)))]

\* the pools after the fixed transaction, an error when a balance is not a
\* valid amount
AddTransactionValueBalance(fixed, chain_value_pools, spent) ==
    [ok |-> ValidValueBalance(
              [transparent |-> chain_value_pools.transparent
                               + SumSeq(fixed.outputs) - spent,
               sprout |-> chain_value_pools.sprout,
               sapling |-> chain_value_pools.sapling - fixed.sapling_value_balance,
               orchard |-> chain_value_pools.orchard - fixed.orchard_value_balance]),
     transaction |-> fixed,
     chain_value_pools |->
         [transparent |-> chain_value_pools.transparent + SumSeq(fixed.outputs) - spent,
          sprout |-> chain_value_pools.sprout,
          sapling |-> chain_value_pools.sapling - fixed.sapling_value_balance,
          orchard |-> chain_value_pools.orchard - fixed.orchard_value_balance]]

FixValues(tx, chain_value_pools, spent, saplingIn, orchardIn) ==
    AddTransactionValueBalance(
        FixRemainingValue(tx, saplingIn, orchardIn,
            FixOutputValues(tx.outputs,
                            spent + Positive(saplingIn) + Positive(orchardIn))),
        chain_value_pools, spent)

\* Transaction::fix_chain_value_pools: value taken from a shielded pool that
\* exceeds the pool is set to zero, then (except in a coinbase transaction)
\* outputs that exceed the remaining input value are set to zero.  The
\* result is an error when a new pool balance is not a valid amount.
FixChainValuePools(tx, chain_value_pools, spent_outputs) ==
    FixValues(tx, chain_value_pools, SpentValue(tx, spent_outputs),
              FixShieldedInput(tx.sapling_value_balance, chain_value_pools.sapling),
              FixShieldedInput(tx.orchard_value_balance, chain_value_pools.orchard))

(***************************************************************************)
(* fix_generated_transaction.  `order` lists the ledger entries in the     *)
(* iteration order of the HashMap, as far as the call observes it: the     *)
(* entry utxos.iter().next() yields is the first one of `order` that has   *)
(* not been removed.                                                       *)
(***************************************************************************)
\* AfterSelector without `utxos.remove(&selected_outpoint)`
AfterSelector_without_remove(st, input, found) ==
    IF found.outpoint # NoOutPoint
    THEN [outputs |-> found.outputs,
          spend_restriction |-> found.spend_restriction,
          utxos |-> st.utxos,
          new_inputs |-> Append(st.new_inputs, SetOutPoint(input, found.outpoint)),
          spent_outputs |->
              [op \in DOMAIN st.spent_outputs \cup {found.outpoint} |->
                  IF op = found.outpoint THEN st.utxos[found.outpoint].output
                  ELSE st.spent_outputs[op]],
          calls |-> Append(st.calls, found),
          next |-> st.next + 1]
    ELSE [st EXCEPT !.calls = Append(st.calls, found)]

\* AfterSelector without the changes of the selector to the restriction of
\* the caller
AfterSelector_without_promotion(st, input, found) ==
    IF found.outpoint # NoOutPoint
    THEN [outputs |-> found.outputs,
          spend_restriction |-> st.spend_restriction,
          utxos |-> RemoveUtxo(st.utxos, found.outpoint),
          new_inputs |-> Append(st.new_inputs, SetOutPoint(input, found.outpoint)),
          spent_outputs |->
              [op \in DOMAIN st.spent_outputs \cup {found.outpoint} |->
                  IF op = found.outpoint THEN st.utxos[found.outpoint].output
                  ELSE st.spent_outputs[op]],
          calls |-> Append(st.calls, [found EXCEPT !.spend_restriction = st.spend_restriction]),
          next |-> st.next + 1]
    ELSE [st EXCEPT !.calls = Append(st.calls, found)]

\* AfterSelector with the input kept as it is when the selector found nothing
AfterSelector_keeps_unfound(st, input, found) ==
    IF found.outpoint # NoOutPoint
    THEN [outputs |-> found.outputs,
          spend_restriction |-> found.spend_restriction,
          utxos |-> RemoveUtxo(st.utxos, found.outpoint),
          new_inputs |-> Append(st.new_inputs, SetOutPoint(input, found.outpoint)),
          spent_outputs |->
              [op \in DOMAIN st.spent_outputs \cup {found.outpoint} |->
                  IF op = found.outpoint THEN st.utxos[found.outpoint].output
                  ELSE st.spent_outputs[op]],
          calls |-> Append(st.calls, found),
          next |-> st.next + 1]
    ELSE [st EXCEPT !.calls = Append(st.calls, found),
                    !.new_inputs = Append(st.new_inputs, input)]

\* AfterSelector with the inputs selected before dropped when the selector
\* changes the restriction
AfterSelector_forgets_earlier(st, input, found) ==
    IF found.outpoint # NoOutPoint
    THEN [outputs |-> found.outputs,
          spend_restriction |-> found.spend_restriction,
          utxos |-> RemoveUtxo(st.utxos, found.outpoint),
          new_inputs |->
              IF found.spend_restriction = st.spend_restriction
              THEN Append(st.new_inputs, SetOutPoint(input, found.outpoint))
              ELSE <<SetOutPoint(input, found.outpoint)>>,
          spent_outputs |->
              [op \in DOMAIN st.spent_outputs \cup {found.outpoint} |->
                  IF op = found.outpoint THEN st.utxos[found.outpoint].output
                  ELSE st.spent_outputs[op]],
          calls |-> Append(st.calls, found),
          next |-> st.next + 1]
    ELSE [st EXCEPT !.calls = Append(st.calls, found)]

\* the state of the loop after the selector found `found` for an input
AfterSelector(st, input, found) ==
    IF found.outpoint # NoOutPoint
    THEN [outputs |-> found.outputs,
          spend_restriction |-> found.spend_restriction,
          utxos |-> RemoveUtxo(st.utxos, found.outpoint),
          new_inputs |-> Append(st.new_inputs, SetOutPoint(input, found.outpoint)),
          spent_outputs |->
              [op \in DOMAIN st.spent_outputs \cup {found.outpoint} |->
                  IF op = found.outpoint THEN st.utxos[found.outpoint].output
                  ELSE st.spent_outputs[op]],
          calls |-> Append(st.calls, found),
          next |-> st.next + 1]
    ELSE [st EXCEPT !.calls = Append(st.calls, found)]

\* FixInput without `new_inputs.push(input.clone())` for a coinbase input
FixInput_drops_coinbase(input, tx, height, check, order, st) ==
    IF input.outpoint # NoOutPoint
    THEN AfterSelector(st, input,
             FindValidUtxoForSpend([tx EXCEPT !.outputs = st.outputs],
                                   st.spend_restriction, height, st.utxos,
                                   IF st.next <= Len(order) THEN order[st.next]
                                   ELSE NoOutPoint,
                                   check))
    ELSE st

\* one turn of the loop over original_inputs
FixInput(input, tx, height, check, order, st) ==
    IF input.outpoint # NoOutPoint
    THEN AfterSelector(st, input,
             FindValidUtxoForSpend([tx EXCEPT !.outputs = st.outputs],
                                   st.spend_restriction, height, st.utxos,
                                   IF st.next <= Len(order) THEN order[st.next]
                                   ELSE NoOutPoint,
                                   check))
    ELSE [st EXCEPT !.new_inputs = Append(st.new_inputs, input)]

\* the loop over original_inputs
RECURSIVE FixInputs(_, _, _, _, _, _)
FixInputs(inputs, tx, height, check, order, st) ==
    IF inputs = <<>> THEN st
    ELSE FixInputs(Tail(inputs), tx, height, check, order,
                   FixInput(Head(inputs), tx, height, check, order, st))

\* the state of the loop before the first input
InitialFixState(tx, height, utxos) ==
    [outputs |-> tx.outputs,
     spend_restriction |-> CoinbaseSpendRestriction(tx, height),
     utxos |-> utxos,
     new_inputs |-> <<>>,
     spent_outputs |-> [op \in {} |-> 0],
     calls |-> <<>>,
     next |-> 1]

\* FixOutcome without `utxos.extend(new_transaction_ordered_outputs(..))`
FixOutcome_without_extend(tx_index_in_block, height, chain_value_pools, st, fix) ==
    [panicked |-> ~fix.ok,
     error |-> ValueBalanceError(fix.chain_value_pools),
     kept |-> HasTransparentOrShieldedInputs(fix.transaction),
     transaction |-> fix.transaction,
     chain_value_pools |->
         IF HasTransparentOrShieldedInputs(fix.transaction) /\ height > 0
         THEN fix.chain_value_pools ELSE chain_value_pools,
     utxos |-> st.utxos,
     calls |-> st.calls,
     spend_restriction |-> st.spend_restriction]

\* FixOutcome with the pools and the ledger committed before the test of
\* `transaction.has_transparent_or_shielded_inputs()`
FixOutcome_commits_when_dropped(tx_index_in_block, height, chain_value_pools, st, fix) ==
    [panicked |-> ~fix.ok,
     error |-> ValueBalanceError(fix.chain_value_pools),
     kept |-> HasTransparentOrShieldedInputs(fix.transaction),
     transaction |-> fix.transaction,
     chain_value_pools |->
         IF height > 0 THEN fix.chain_value_pools ELSE chain_value_pools,
     utxos |->
         IF height > 0
         THEN ExtendUtxos(st.utxos,
                  NewTransactionOrderedOutputs(fix.transaction,
                      TxHash(fix.transaction), tx_index_in_block, height))
         ELSE st.utxos,
     calls |-> st.calls,
     spend_restriction |-> st.spend_restriction]

\* FixOutcome with a test that does not count coinbase inputs as inputs
FixOutcome_drops_coinbase(tx_index_in_block, height, chain_value_pools, st, fix) ==
    [panicked |-> ~fix.ok,
     error |-> ValueBalanceError(fix.chain_value_pools),
     kept |-> \/ \E i \in DOMAIN fix.transaction.inputs :
                    fix.transaction.inputs[i].outpoint # NoOutPoint
              \/ HasShieldedInputs(fix.transaction),
     transaction |-> fix.transaction,
     chain_value_pools |->
         IF HasTransparentOrShieldedInputs(fix.transaction) /\ height > 0
         THEN fix.chain_value_pools ELSE chain_value_pools,
     utxos |->
         IF HasTransparentOrShieldedInputs(fix.transaction) /\ height > 0
         THEN ExtendUtxos(st.utxos,
                  NewTransactionOrderedOutputs(fix.transaction,
                      TxHash(fix.transaction), tx_index_in_block, height))
         ELSE st.utxos,
     calls |-> st.calls,
     spend_restriction |-> st.spend_restriction]

\* FixOutcome without `if height > Height(0)`
FixOutcome_commits_at_genesis(tx_index_in_block, height, chain_value_pools, st, fix) ==
    [panicked |-> ~fix.ok,
     error |-> ValueBalanceError(fix.chain_value_pools),
     kept |-> HasTransparentOrShieldedInputs(fix.transaction),
     transaction |-> fix.transaction,
     chain_value_pools |->
         IF HasTransparentOrShieldedInputs(fix.transaction)
         THEN fix.chain_value_pools ELSE chain_value_pools,
     utxos |->
         IF HasTransparentOrShieldedInputs(fix.transaction)
         THEN ExtendUtxos(st.utxos,
                  NewTransactionOrderedOutputs(fix.transaction,
                      TxHash(fix.transaction), tx_index_in_block, height))
         ELSE st.utxos,
     calls |-> st.calls,
     spend_restriction |-> st.spend_restriction]

\* FixOutcome with Some(transaction) returned for every transaction
FixOutcome_always_some(tx_index_in_block, height, chain_value_pools, st, fix) ==
    [panicked |-> ~fix.ok,
     error |-> ValueBalanceError(fix.chain_value_pools),
     kept |-> TRUE,
     transaction |-> fix.transaction,
     chain_value_pools |->
         IF height > 0 THEN fix.chain_value_pools ELSE chain_value_pools,
     utxos |->
         IF height > 0
         THEN ExtendUtxos(st.utxos,
                  NewTransactionOrderedOutputs(fix.transaction,
                      TxHash(fix.transaction), tx_index_in_block, height))
         ELSE st.utxos,
     calls |-> st.calls,
     spend_restriction |-> st.spend_restriction]

\* the end of fix_generated_transaction, after the value fix returned `fix`:
\* `panicked` when the value fix failed, `kept` for Some(transaction)
FixOutcome(tx_index_in_block, height, chain_value_pools, st, fix) ==
    [panicked |-> ~fix.ok,
     error |-> ValueBalanceError(fix.chain_value_pools),
     kept |-> HasTransparentOrShieldedInputs(fix.transaction),
     transaction |-> fix.transaction,
     chain_value_pools |->
         IF HasTransparentOrShieldedInputs(fix.transaction) /\ height > 0
         THEN fix.chain_value_pools ELSE chain_value_pools,
     utxos |->
         IF HasTransparentOrShieldedInputs(fix.transaction) /\ height > 0
         THEN ExtendUtxos(st.utxos,
                  NewTransactionOrderedOutputs(fix.transaction,
                      TxHash(fix.transaction), tx_index_in_block, height))
         ELSE st.utxos,
     calls |-> st.calls,
     spend_restriction |-> st.spend_restriction]

\* FixAfterInputs without the value fix: the value balances of the candidate
\* are applied to the pools as they are
FixAfterInputs_without_value_fix(transaction, tx_index_in_block, height, chain_value_pools, st) ==
    FixOutcome(tx_index_in_block, height, chain_value_pools, st,
        [AddTransactionValueBalance(
             [transaction EXCEPT !.inputs = st.new_inputs, !.outputs = st.outputs],
             chain_value_pools,
             SpentValue([transaction EXCEPT !.inputs = st.new_inputs],
                        st.spent_outputs))
         EXCEPT !.ok = TRUE])

\* fix_generated_transaction after the loop over the inputs left `st`
FixAfterInputs(transaction, tx_index_in_block, height, chain_value_pools, st) ==
    FixOutcome(tx_index_in_block, height, chain_value_pools, st,
        FixChainValuePools([transaction EXCEPT !.inputs = st.new_inputs,
                                               !.outputs = st.outputs],
                           chain_value_pools, st.spent_outputs))

FixGeneratedTransaction(transaction, tx_index_in_block, height, chain_value_pools, utxos, check, order) ==
    FixAfterInputs(transaction, tx_index_in_block, height, chain_value_pools,
        FixInputs(transaction.inputs, transaction, height, check, order,
                  InitialFixState(transaction, height, utxos)))

(***************************************************************************)
(* Network upgrades.  The activation heights are scaled down; the three    *)
(* networks cover NU5 two blocks after Heartwood, NU5 without an           *)
(* activation height, and NU5 activating together with Heartwood.          *)
(***************************************************************************)
Networks == {"Mainnet", "Testnet", "Regtest"}

\* Option<Height>::None
NoHeight == -1

\* NetworkUpgrade::Heartwood.activation_height(network)
HeartwoodActivationHeight(network) ==
    IF network = "Testnet" THEN 2 ELSE 1

\* NetworkUpgrade::Nu5.activation_height(network)
Nu5ActivationHeight(network) ==
    IF network = "Mainnet" THEN 3
    ELSE IF network = "Regtest" THEN 1
    ELSE NoHeight

(***************************************************************************)
(* Blocks, note commitment trees and the history tree.                     *)
(***************************************************************************)
\* Option<block::Hash>::None
NoBlockHash == <<"none">>

\* the header Header::arbitrary_with generates at `height`
CandidateHeader(height, commitment_bytes) ==
    [previous_block_hash |-> IF height = 0 THEN GenesisPreviousBlockHash
                             ELSE ArbitraryPreviousBlockHash,
     merkle_root |-> ArbitraryMerkleRoot,
     commitment_bytes |-> commitment_bytes]

\* Block::hash: the hash of the header
BlockHash(block) == <<"block_hash", block.header>>

\* Block::coinbase_height: the height in the first input of the first
\* transaction, when that input is a coinbase input
CoinbaseHeight(block) ==
    IF /\ block.transactions # <<>>
       /\ block.transactions[1].inputs # <<>>
       /\ block.transactions[1].inputs[1].outpoint = NoOutPoint
    THEN block.transactions[1].inputs[1].height
    ELSE NoHeight

\* Block::auth_data_root: a digest over the transactions of the block
AuthDataRoot(block) == <<"auth_data_root", block.transactions>>

\* NoteCommitmentTree::default(), append and root
EmptyNoteCommitmentTree == <<>>

\* AppendAll with the note commitments put before the ones of the tree
AppendAll_in_front(tree, note_commitments) == note_commitments \o tree

AppendAll(tree, note_commitments) == tree \o note_commitments

SaplingRoot(tree) == <<"sapling_root", tree>>

OrchardRoot(tree) == <<"orchard_root", tree>>

\* Option<HistoryTree>::None
NoHistoryTree == [present |-> FALSE, entries |-> <<>>]

HistoryEntry(block, sapling_root, orchard_root) ==
    [block |-> block, sapling_root |-> sapling_root, orchard_root |-> orchard_root]

\* HistoryTree::from_block
HistoryTreeFromBlock(block, sapling_root, orchard_root) ==
    [present |-> TRUE, entries |-> <<HistoryEntry(block, sapling_root, orchard_root)>>]

\* HistoryTree::push
HistoryTreePush(tree, block, sapling_root, orchard_root) ==
    [tree EXCEPT !.entries = Append(@, HistoryEntry(block, sapling_root, orchard_root))]

\* the root the commitment of the next block is computed from:
\* tree.hash().unwrap_or_else(|| [0u8; 32].into()), or [0u8; 32] without a tree
HistoryTreeRoot(tree) ==
    IF tree.present /\ tree.entries # <<>>
    THEN <<"history_root", tree.entries>>
    ELSE ZeroBytes

\* ChainHistoryBlockTxAuthCommitmentHash::from_commitments
BlockCommitments(history_tree_root, auth_data_root) ==
    <<"block_commitments", history_tree_root, auth_data_root>>

\* FixedCommitment with Ordering::Equal handled like Ordering::Greater
FixedCommitment_equal_as_greater(block, current_height, heartwood_height, nu5_height, history_tree_root) ==
    IF current_height < heartwood_height THEN PreHeartwoodPlaceholder
    ELSE IF nu5_height # NoHeight /\ current_height >= nu5_height
    THEN BlockCommitments(history_tree_root, AuthDataRoot(block))
    ELSE history_tree_root

\* FixedCommitment with the NU5 commitment from Heartwood on
\* (`current_height >= nu5_height` left out)
FixedCommitment_always_nu5(block, current_height, heartwood_height, nu5_height, history_tree_root) ==
    IF current_height < heartwood_height THEN PreHeartwoodPlaceholder
    ELSE IF current_height = heartwood_height THEN ZeroBytes
    ELSE BlockCommitments(history_tree_root, AuthDataRoot(block))

\* FixedCommitment without the NU5 commitment
FixedCommitment_never_nu5(block, current_height, heartwood_height, nu5_height, history_tree_root) ==
    IF current_height < heartwood_height THEN PreHeartwoodPlaceholder
    ELSE IF current_height = heartwood_height THEN ZeroBytes
    ELSE history_tree_root

\* FixedCommitment without `block.header.commitment_bytes[0] = 1`
FixedCommitment_less_as_equal(block, current_height, heartwood_height, nu5_height, history_tree_root) ==
    IF current_height <= heartwood_height THEN ZeroBytes
    ELSE IF nu5_height # NoHeight /\ current_height >= nu5_height
    THEN BlockCommitments(history_tree_root, AuthDataRoot(block))
    ELSE history_tree_root

\* the commitment bytes written when generate_valid_commitments is set
FixedCommitment(block, current_height, heartwood_height, nu5_height, history_tree_root) ==
    IF current_height < heartwood_height THEN PreHeartwoodPlaceholder
    ELSE IF current_height = heartwood_height THEN ZeroBytes
    ELSE IF nu5_height # NoHeight /\ current_height >= nu5_height
    THEN BlockCommitments(history_tree_root, AuthDataRoot(block))
    ELSE history_tree_root

\* FixCommitment with the history tree updated before the commitment is fixed
FixCommitment_after_history_update(block, network, tree, generate_valid_commitments) ==
    IF generate_valid_commitments
    THEN [block EXCEPT !.header.commitment_bytes =
             FixedCommitment(block, CoinbaseHeight(block),
                             HeartwoodActivationHeight(network),
                             Nu5ActivationHeight(network),
                             HistoryTreeRoot(
                                 IF ~tree.present
                                 THEN HistoryTreeFromBlock(block, ZeroBytes, ZeroBytes)
                                 ELSE HistoryTreePush(tree, block, ZeroBytes, ZeroBytes)))]
    ELSE block

\* FixCommitment without the fix: the candidate's commitment is kept
FixCommitment_keeps_candidate(block, network, tree, generate_valid_commitments) == block

\* the block after `fix commitment`
FixCommitment(block, network, tree, generate_valid_commitments) ==
    IF generate_valid_commitments
    THEN [block EXCEPT !.header.commitment_bytes =
             FixedCommitment(block, CoinbaseHeight(block),
                             HeartwoodActivationHeight(network),
                             Nu5ActivationHeight(network), HistoryTreeRoot(tree))]
    ELSE block

\* the history tree after `update history tree for the next block`
UpdateHistoryTree(tree, block, sapling_tree, orchard_tree, generate_valid_commitments) ==
    IF ~generate_valid_commitments THEN tree
    ELSE IF ~tree.present
    THEN HistoryTreeFromBlock(block, SaplingRoot(sapling_tree), OrchardRoot(orchard_tree))
    ELSE HistoryTreePush(tree, block, SaplingRoot(sapling_tree), OrchardRoot(orchard_tree))

(***************************************************************************)
(* The candidate transactions of a block at `height`.                      *)
(***************************************************************************)
\* a coinbase transaction with one transparent output
CoinbaseTx(height) == Tx(<<CoinbaseInput(height)>>, <<1>>, 0, <<>>, <<>>, 0, 0)

\* a transparent spend with one transparent output
SpendTx == Tx(<<PrevOutInput(CandidateOutPoint)>>, <<1>>, 0, <<>>, <<>>, 0, 0)

\* two transparent spends, a transparent output and two Sapling outputs
ShieldingTx ==
    Tx(<<PrevOutInput(CandidateOutPoint), PrevOutInput(CandidateOutPoint)>>,
       <<1>>, 0, <<11, 12>>, <<>>, -1, 0)

\* a Sapling spend that pays a transparent output, with a Sapling output
UnshieldingTx == Tx(<<>>, <<1>>, 1, <<13>>, <<>>, 1, 0)

\* a transparent spend into an Orchard action, without transparent outputs
OrchardTx == Tx(<<PrevOutInput(CandidateOutPoint)>>, <<>>, 0, <<>>, <<21>>, 0, -1)

\* a transparent spend followed by a coinbase input
MixedTx(height) ==
    Tx(<<PrevOutInput(CandidateOutPoint), CoinbaseInput(height)>>, <<1>>,
       0, <<>>, <<>>, 0, 0)

CandidateTransactions(height) ==
    {CoinbaseTx(height), SpendTx, ShieldingTx, UnshieldingTx, OrchardTx, MixedTx(height)}

(***************************************************************************)
(* The state of one run of the closure partial_chain_strategy maps over    *)
(* the candidate blocks.                                                   *)
(***************************************************************************)
VARIABLES
    start_height,                \* current.height, the height of the first block
    network,                     \* current.network
    count,                       \* the number of candidate blocks
    check,                       \* check_transparent_coinbase_spend
    generate_valid_commitments,
    pc,                          \* "block", "transactions", "done" or "panicked"
    chain,                       \* the blocks the loop is done with, with their heights
    height,                      \* the height of the block in the loop
    block,                       \* the block in the loop
    tx_index_in_block,           \* the number of candidate transactions drained
    new_transactions,
    previous_block_hash,
    utxos,
    iter_first,                  \* the entry utxos.iter().next() is known to yield
    chain_value_pools,
    sapling_tree,
    orchard_tree,
    history_tree,
    last_fix,                    \* the last call of fix_generated_transaction
    panic_message,               \* the message of the panic that ended the run
    shielded_data,               \* verify_orchard_halo2_proofs: for every item, whether its proof verifies
    halo2_pc,                    \* "idle", "submit", "await" or "done"
    submitted,                   \* the number of items handed to the verifier
    in_flight,                   \* the calls whose response has not completed
    completed,                   \* the calls whose response has completed, in completion order, not yet taken
    halo2_result                 \* "none", "Ok" or "Err"

\* the state of a run of partial_chain_strategy
chain_vars == <<start_height, network, count, check, generate_valid_commitments, pc,
                chain, height, block, tx_index_in_block, new_transactions,
                previous_block_hash, utxos, iter_first, chain_value_pools,
                sapling_tree, orchard_tree, history_tree, last_fix, panic_message>>

\* the state of a call of verify_orchard_halo2_proofs
halo2_vars == <<shielded_data, halo2_pc, submitted, in_flight, completed, halo2_result>>

vars == <<chain_vars, halo2_vars>>

params == <<start_height, network, count, check, generate_valid_commitments>>

NoBlock == [header |-> CandidateHeader(0, ZeroBytes), transactions |-> <<>>]

NoTx == Tx(<<>>, <<>>, 0, <<>>, <<>>, 0, 0)

\* the run has not panicked
NoPanic == <<>>

\* Result::expect on an Err: the text and the Debug form of the error; the
\* parts of a message are pairs of what is printed and the value printed
ExpectMessage(text, error) == << <<"text", text>>, <<"error", error>> >>

\* Option::unwrap on a None
UnwrapNoneMessage == << <<"text", "called Option::unwrap() on a None value">> >>

\* the text of the `.expect(...)` on the result of fix_chain_value_pools
ValueFixExpectText ==
    "value fixes produce valid chain value pools and remaining transaction values"

\* no call of fix_generated_transaction yet
NoFix ==
    [called |-> FALSE, candidate |-> NoTx, height |-> 0, tx_index_in_block |-> 0,
     utxos_before |-> EmptyUtxos, pools_before |-> ZeroValueBalance,
     panicked |-> FALSE, kept |-> FALSE, transaction |-> NoTx, calls |-> <<>>,
     spend_restriction |-> SomeTransparentOutputs]

\* no call of verify_orchard_halo2_proofs
Halo2Idle ==
    /\ shielded_data = <<>>
    /\ halo2_pc = "idle"
    /\ submitted = 0
    /\ in_flight = {}
    /\ completed = <<>>
    /\ halo2_result = "none"

Init ==
    /\ start_height \in 0..MaxStartHeight
    /\ network \in Networks
    /\ count \in 1..MaxBlocks
    /\ check \in Checks
    /\ generate_valid_commitments \in BOOLEAN
    \* current.network is read only inside `if generate_valid_commitments`
    \* (lines 468-530): without it one network stands for all of them
    /\ generate_valid_commitments \/ network = "Mainnet"
    /\ pc = "block"
    /\ chain = <<>>
    /\ height = start_height
    /\ block = NoBlock
    /\ tx_index_in_block = 0
    /\ new_transactions = <<>>
    /\ previous_block_hash = NoBlockHash
    /\ utxos = EmptyUtxos
    /\ iter_first = NoOutPoint
    /\ chain_value_pools = ZeroValueBalance
    /\ sapling_tree = EmptyNoteCommitmentTree
    /\ orchard_tree = EmptyNoteCommitmentTree
    /\ history_tree = NoHistoryTree
    /\ last_fix = NoFix
    /\ panic_message = NoPanic
    /\ Halo2Idle

(***************************************************************************)
(* The iteration orders a call of fix_generated_transaction can observe:   *)
(* the first n entries of the HashMap, without repetition.  The order of a *)
(* HashMap is unspecified, but it does not change while the map is not     *)
(* changed: an entry known to be the first one stays the first one.        *)
(***************************************************************************)
Min(a, b) == IF a < b THEN a ELSE b

PrevOutCount(tx) == Cardinality({i \in DOMAIN tx.inputs : tx.inputs[i].outpoint # NoOutPoint})

IterationOrders(map, n, first) ==
    {order \in [1..Min(n, Cardinality(DOMAIN map)) -> DOMAIN map] :
        /\ \A i, j \in DOMAIN order : i # j => order[i] # order[j]
        /\ (first # NoOutPoint /\ order # <<>>) => order[1] = first}

\* the entry that is known to be the first one after a call: a call of the
\* selector that found nothing leaves its candidate in place, an insertion
\* can move every entry
KnownFirst(r, before, after, first) ==
    IF \E op \in DOMAIN after : op \notin DOMAIN before THEN NoOutPoint
    ELSE IF \E i \in DOMAIN r.calls :
               r.calls[i].outpoint = NoOutPoint /\ r.calls[i].candidate # NoOutPoint
    THEN (r.calls[CHOOSE i \in DOMAIN r.calls :
                     r.calls[i].outpoint = NoOutPoint
                     /\ r.calls[i].candidate # NoOutPoint]).candidate
    ELSE IF first \in DOMAIN after THEN first
    ELSE NoOutPoint

(***************************************************************************)
(* The steps of the loop over the candidate blocks.                        *)
(***************************************************************************)
\* FixPreviousBlockHash without the assignment
FixPreviousBlockHash_skipped(header, previous) == header

\* `fixup the previous block hash`
FixPreviousBlockHash(header, previous) ==
    IF previous # NoBlockHash THEN [header EXCEPT !.previous_block_hash = previous]
    ELSE header

\* CandidateHeight without `current.height.0 += 1`
CandidateHeight_not_incremented == start_height

\* the height the next candidate block was generated with: current.height,
\* incremented once for every block before it
CandidateHeight == start_height + Len(chain)

\* `for (height, block) in vec.iter_mut()`: the next candidate block, and
\* the fixup of its previous block hash
StartBlock ==
    /\ pc = "block"
    /\ Len(chain) < count
    /\ \E commitment_bytes \in CandidateCommitments :
          block' = [header |-> FixPreviousBlockHash(
                                   CandidateHeader(CandidateHeight, commitment_bytes),
                                   previous_block_hash),
                    transactions |-> <<>>]
    /\ height' = CandidateHeight
    /\ tx_index_in_block' = 0
    /\ new_transactions' = <<>>
    /\ pc' = "transactions"
    /\ UNCHANGED halo2_vars
    /\ UNCHANGED <<params, chain, previous_block_hash, utxos, iter_first,
                   chain_value_pools, sapling_tree, orchard_tree, history_tree,
                   last_fix, panic_message>>

\* the record of a call of fix_generated_transaction
FixRecord(candidate, r) ==
    [called |-> TRUE, candidate |-> candidate, height |-> height,
     tx_index_in_block |-> tx_index_in_block,
     utxos_before |-> utxos, pools_before |-> chain_value_pools,
     panicked |-> r.panicked, kept |-> r.kept /\ ~r.panicked,
     transaction |-> r.transaction, calls |-> r.calls,
     spend_restriction |-> r.spend_restriction]

\* AppendNoteCommitments without the appends
AppendNoteCommitments_skipped(tree, r, note_commitments) == tree

\* the note commitment tree after the transaction the fixer returned
AppendNoteCommitments(tree, r, note_commitments) ==
    IF r.kept /\ generate_valid_commitments /\ height # 0
    THEN AppendAll(tree, note_commitments)
    ELSE tree

\* AfterFix with the returned transaction pushed twice
AfterFix_pushes_twice(candidate, r) ==
    /\ ~r.panicked
    /\ utxos' = r.utxos
    /\ chain_value_pools' = r.chain_value_pools
    /\ iter_first' = KnownFirst(r, utxos, r.utxos, iter_first)
    /\ sapling_tree' = AppendNoteCommitments(sapling_tree, r,
                                             r.transaction.sapling_note_commitments)
    /\ orchard_tree' = AppendNoteCommitments(orchard_tree, r,
                                             r.transaction.orchard_note_commitments)
    /\ new_transactions' =
          IF r.kept THEN Append(Append(new_transactions, r.transaction), r.transaction)
          ELSE new_transactions
    /\ last_fix' = FixRecord(candidate, r)

\* the state after a call of fix_generated_transaction that returned `r`
AfterFix(candidate, r) ==
    /\ ~r.panicked
    /\ utxos' = r.utxos
    /\ chain_value_pools' = r.chain_value_pools
    /\ iter_first' = KnownFirst(r, utxos, r.utxos, iter_first)
    /\ sapling_tree' = AppendNoteCommitments(sapling_tree, r,
                                             r.transaction.sapling_note_commitments)
    /\ orchard_tree' = AppendNoteCommitments(orchard_tree, r,
                                             r.transaction.orchard_note_commitments)
    /\ new_transactions' = IF r.kept THEN Append(new_transactions, r.transaction)
                           ELSE new_transactions
    /\ last_fix' = FixRecord(candidate, r)

\* one turn of `for (tx_index_in_block, transaction) in block.transactions.drain(..)`
FixTransaction ==
    /\ pc = "transactions"
    /\ tx_index_in_block < MaxTransactions
    /\ \E candidate \in CandidateTransactions(height) :
       \E order \in IterationOrders(utxos, PrevOutCount(candidate), iter_first) :
          AfterFix(candidate,
                   FixGeneratedTransaction(candidate, tx_index_in_block, height,
                                           chain_value_pools, utxos, check, order))
    /\ tx_index_in_block' = tx_index_in_block + 1
    /\ UNCHANGED halo2_vars
    /\ UNCHANGED <<params, pc, chain, height, block, previous_block_hash, history_tree,
                   panic_message>>

\* the state after a call of fix_generated_transaction that panicked
AfterPanic(candidate, r) ==
    /\ r.panicked
    /\ last_fix' = FixRecord(candidate, r)
    /\ panic_message' = ExpectMessage(ValueFixExpectText, r.error)

\* the value fix of a transaction fails: `.expect(...)` panics
PanicValueFix ==
    /\ pc = "transactions"
    /\ tx_index_in_block < MaxTransactions
    /\ \E candidate \in CandidateTransactions(height) :
       \E order \in IterationOrders(utxos, PrevOutCount(candidate), iter_first) :
          AfterPanic(candidate,
                     FixGeneratedTransaction(candidate, tx_index_in_block, height,
                                             chain_value_pools, utxos, check, order))
    /\ pc' = "panicked"
    /\ UNCHANGED halo2_vars
    /\ UNCHANGED <<params, chain, height, block, tx_index_in_block, new_transactions,
                   previous_block_hash, utxos, iter_first, chain_value_pools,
                   sapling_tree, orchard_tree, history_tree>>

\* the block with the invalid transactions deleted
PrunedBlock == [block EXCEPT !.transactions = new_transactions]

\* the state after the commitment of the block was fixed
AfterFixCommitment(fixed) ==
    /\ history_tree' = UpdateHistoryTree(history_tree, fixed, sapling_tree,
                                         orchard_tree, generate_valid_commitments)
    /\ previous_block_hash' = BlockHash(fixed)
    /\ chain' = Append(chain, [height |-> height, block |-> fixed])
    /\ block' = fixed

\* the end of a turn of the loop over the blocks: `delete invalid
\* transactions`, `fix commitment`, `update history tree`, and the block hash
FinishBlock ==
    /\ pc = "transactions"
    /\ tx_index_in_block >= 1
    /\ generate_valid_commitments => CoinbaseHeight(PrunedBlock) # NoHeight
    /\ AfterFixCommitment(FixCommitment(PrunedBlock, network, history_tree,
                                        generate_valid_commitments))
    /\ new_transactions' = <<>>
    /\ pc' = "block"
    /\ UNCHANGED halo2_vars
    /\ UNCHANGED <<params, height, tx_index_in_block, utxos, iter_first,
                   chain_value_pools, sapling_tree, orchard_tree, last_fix,
                   panic_message>>

\* `block.coinbase_height().unwrap()` panics: the block does not start with
\* a coinbase input
PanicCoinbaseHeight ==
    /\ pc = "transactions"
    /\ tx_index_in_block >= 1
    /\ generate_valid_commitments
    /\ CoinbaseHeight(PrunedBlock) = NoHeight
    /\ pc' = "panicked"
    /\ block' = PrunedBlock
    /\ panic_message' = UnwrapNoneMessage
    /\ UNCHANGED halo2_vars
    /\ UNCHANGED <<params, chain, height, tx_index_in_block, new_transactions,
                   previous_block_hash, utxos, iter_first, chain_value_pools,
                   sapling_tree, orchard_tree, history_tree, last_fix>>

\* the loop is over: the closure returns the blocks
Emit ==
    /\ pc = "block"
    /\ Len(chain) = count
    /\ pc' = "done"
    /\ UNCHANGED halo2_vars
    /\ UNCHANGED <<params, chain, height, block, tx_index_in_block, new_transactions,
                   previous_block_hash, utxos, iter_first, chain_value_pools,
                   sapling_tree, orchard_tree, history_tree, last_fix, panic_message>>

Next ==
    \/ StartBlock
    \/ FixTransaction
    \/ PanicValueFix
    \/ FinishBlock
    \/ PanicCoinbaseHeight
    \/ Emit

Spec == Init /\ [][Next]_vars

(***************************************************************************)
(* verify_orchard_halo2_proofs (zebra-consensus, primitives/halo2/tests.rs) *)
(* hands every item of shielded_data to the verifier, then takes the       *)
(* responses from a FuturesUnordered.  A response completes at any time    *)
(* after its call; FuturesUnordered yields the responses in the order they *)
(* complete.  verify_invalid_orchard_halo2_proofs is the same code on      *)
(* items whose flags were removed, and whose proofs do not verify.         *)
(***************************************************************************)
\* the largest number of items of shielded_data
MaxItems == 3

\* the batches of at most MaxItems items
ShieldedDataBatches ==
    UNION {[1..n -> BOOLEAN] : n \in 0..MaxItems}

\* no run of partial_chain_strategy
ChainIdle ==
    /\ start_height = 0
    /\ network = "Mainnet"
    /\ count = 1
    /\ check = "AllowAll"
    /\ generate_valid_commitments = FALSE
    /\ pc = "idle"
    /\ chain = <<>>
    /\ height = 0
    /\ block = NoBlock
    /\ tx_index_in_block = 0
    /\ new_transactions = <<>>
    /\ previous_block_hash = NoBlockHash
    /\ utxos = EmptyUtxos
    /\ iter_first = NoOutPoint
    /\ chain_value_pools = ZeroValueBalance
    /\ sapling_tree = EmptyNoteCommitmentTree
    /\ orchard_tree = EmptyNoteCommitmentTree
    /\ history_tree = NoHistoryTree
    /\ last_fix = NoFix
    /\ panic_message = NoPanic

Halo2Init ==
    /\ ChainIdle
    /\ shielded_data \in ShieldedDataBatches
    /\ halo2_pc = "submit"
    /\ submitted = 0
    /\ in_flight = {}
    /\ completed = <<>>
    /\ halo2_result = "none"

\* the response of the verifier to the call for the i-th item
Response(i) == IF shielded_data[i] THEN "Ok" ELSE "Err"

\* one turn of `for sd in shielded_data`: the verifier is ready, is called,
\* and the response is pushed
Halo2Call ==
    /\ halo2_pc = "submit"
    /\ submitted < Len(shielded_data)
    /\ submitted' = submitted + 1
    /\ in_flight' = in_flight \cup {submitted + 1}
    /\ UNCHANGED <<shielded_data, halo2_pc, completed, halo2_result>>
    /\ UNCHANGED chain_vars

\* `verifier.ready().await?` returns the error of the verifier
Halo2ReadyErr ==
    /\ halo2_pc = "submit"
    /\ submitted < Len(shielded_data)
    /\ halo2_pc' = "done"
    /\ halo2_result' = "Err"
    /\ UNCHANGED <<shielded_data, submitted, in_flight, completed>>
    /\ UNCHANGED chain_vars

\* the end of the loop over shielded_data
Halo2AwaitResponses ==
    /\ halo2_pc = "submit"
    /\ submitted = Len(shielded_data)
    /\ halo2_pc' = "await"
    /\ UNCHANGED <<shielded_data, submitted, in_flight, completed, halo2_result>>
    /\ UNCHANGED chain_vars

\* the response of a call completes
Halo2Complete ==
    /\ halo2_pc \in {"submit", "await"}
    /\ \E i \in in_flight :
          /\ in_flight' = in_flight \ {i}
          /\ completed' = Append(completed, i)
    /\ UNCHANGED <<shielded_data, halo2_pc, submitted, halo2_result>>
    /\ UNCHANGED chain_vars

\* Halo2NextErr without the `?` of `result?`
Halo2NextErr_ignored ==
    /\ halo2_pc = "await"
    /\ completed # <<>>
    /\ Response(Head(completed)) = "Err"
    /\ completed' = Tail(completed)
    /\ UNCHANGED <<shielded_data, halo2_pc, submitted, in_flight, halo2_result>>
    /\ UNCHANGED chain_vars

\* `async_checks.next().await` yields an Ok
Halo2NextOk ==
    /\ halo2_pc = "await"
    /\ completed # <<>>
    /\ Response(Head(completed)) = "Ok"
    /\ completed' = Tail(completed)
    /\ UNCHANGED <<shielded_data, halo2_pc, submitted, in_flight, halo2_result>>
    /\ UNCHANGED chain_vars

\* `async_checks.next().await` yields an Err, and `result?` returns it
Halo2NextErr ==
    /\ halo2_pc = "await"
    /\ completed # <<>>
    /\ Response(Head(completed)) = "Err"
    /\ completed' = Tail(completed)
    /\ halo2_pc' = "done"
    /\ halo2_result' = "Err"
    /\ UNCHANGED <<shielded_data, submitted, in_flight>>
    /\ UNCHANGED chain_vars

\* `async_checks.next().await` yields None: no response is left, `Ok(())`
Halo2ReturnOk ==
    /\ halo2_pc = "await"
    /\ in_flight = {}
    /\ completed = <<>>
    /\ halo2_pc' = "done"
    /\ halo2_result' = "Ok"
    /\ UNCHANGED <<shielded_data, submitted, in_flight, completed>>
    /\ UNCHANGED chain_vars

Halo2Next ==
    \/ Halo2Call
    \/ Halo2ReadyErr
    \/ Halo2AwaitResponses
    \/ Halo2Complete
    \/ Halo2NextOk
    \/ Halo2NextErr
    \/ Halo2ReturnOk

Halo2Spec == Halo2Init /\ [][Halo2Next]_vars

(***************************************************************************)
(* Properties of the constructor.                                          *)
(***************************************************************************)
\* the prior-output references of the transparent inputs of tx
PrevOuts(tx) ==
    {tx.inputs[i].outpoint : i \in {j \in DOMAIN tx.inputs :
                                       tx.inputs[j].outpoint # NoOutPoint}}

\* the last block the loop is done with
LastBlock == chain[Len(chain)].block

\* C1: the previous block hash of every block of the chain but the first is
\* the hash of the block before it as it is emitted: the hash handed to the
\* next block is the one of the block after the fixup of its previous block
\* hash, the deletion of its invalid transactions and the fix of its
\* commitment.
C1_PreviousBlockHashIsHashOfEmittedBlock ==
    /\ \A i \in 2..Len(chain) :
          chain[i].block.header.previous_block_hash = BlockHash(chain[i - 1].block)
    /\ (chain # <<>> /\ pc \in {"block", "done"}) =>
          previous_block_hash = BlockHash(LastBlock)
    /\ (chain # <<>> /\ pc = "transactions") =>
          block.header.previous_block_hash = BlockHash(LastBlock)

\* a chain of two blocks is emitted, and the commitment of the first block
\* was rewritten after the candidate was generated
C1_Witness ==
    /\ pc = "done"
    /\ Len(chain) = 2
    /\ chain[1].block.header.commitment_bytes \notin CandidateCommitments
    /\ chain[2].block.header.previous_block_hash = BlockHash(chain[1].block)

\* C2: after any number of calls of fix_generated_transaction, every pool
\* of the chain value pools has a balance of at least zero.
C2_PoolsAreNonNegative ==
    /\ chain_value_pools.transparent >= 0
    /\ chain_value_pools.sprout >= 0
    /\ chain_value_pools.sapling >= 0
    /\ chain_value_pools.orchard >= 0

\* a transaction took value from a shielded pool that did not hold it, and
\* was kept
C2_Witness ==
    /\ last_fix.called
    /\ last_fix.kept
    /\ last_fix.height > 0
    /\ last_fix.candidate.sapling_value_balance > last_fix.pools_before.sapling
    /\ chain_value_pools.transparent > 0

\* C3: every prior-output reference of a transaction fix_generated_transaction
\* kept was in the ledger before the call and is not in it after the call,
\* and every outpoint the selector returned was in the ledger it was removed
\* from.
C3_SpentOutPointsLeaveTheLedger ==
    (last_fix.called /\ last_fix.kept) =>
        /\ \A op \in PrevOuts(last_fix.transaction) :
              op \in DOMAIN last_fix.utxos_before /\ op \notin DOMAIN utxos
        /\ \A i \in DOMAIN last_fix.calls :
              last_fix.calls[i].outpoint # NoOutPoint =>
                  last_fix.calls[i].outpoint \in DOMAIN last_fix.utxos_before

\* a transaction with two transparent inputs was kept with both of them
C3_Witness ==
    /\ last_fix.called
    /\ last_fix.kept
    /\ Cardinality(PrevOuts(last_fix.transaction)) = 2

\* the places of the transparent inputs with a prior-output reference in
\* the blocks the loop is done with: <<block, transaction, input>>
SpendPlaces ==
    {p \in (DOMAIN chain) \X (1..MaxTransactions) \X (1..2) :
        /\ p[2] \in DOMAIN chain[p[1]].block.transactions
        /\ p[3] \in DOMAIN chain[p[1]].block.transactions[p[2]].inputs
        /\ chain[p[1]].block.transactions[p[2]].inputs[p[3]].outpoint # NoOutPoint}

SpentAt(p) == chain[p[1]].block.transactions[p[2]].inputs[p[3]].outpoint

\* C4: no two transparent inputs of the chain reference the same outpoint,
\* be they in one transaction, in one block or in two blocks.
C4_NoOutPointIsSpentTwice ==
    \A p, q \in SpendPlaces : p # q => SpentAt(p) # SpentAt(q)

\* a step of the loop over the transactions of a block that did not panic
FixStep == tx_index_in_block' = tx_index_in_block + 1

\* C6: fix_generated_transaction returns None, and the transaction is not
\* put into its block, exactly when the transaction has neither transparent
\* nor shielded inputs after the fix of its inputs; a transaction with one
\* transparent input the selector finds no entry for, and without shielded
\* data, is dropped.
C6_DropRule ==
    [][FixStep =>
          /\ last_fix'.kept = HasTransparentOrShieldedInputs(last_fix'.transaction)
          /\ last_fix'.kept =>
                new_transactions' = Append(new_transactions, last_fix'.transaction)
          /\ ~last_fix'.kept => new_transactions' = new_transactions
          /\ ( /\ Len(last_fix'.candidate.inputs) = 1
               /\ PrevOuts(last_fix'.candidate) # {}
               /\ ~HasShieldedInputs(last_fix'.candidate)
               /\ ~HasShieldedOutputs(last_fix'.candidate)
               /\ \A i \in DOMAIN last_fix'.calls :
                     last_fix'.calls[i].outpoint = NoOutPoint )
             => ~last_fix'.kept]_vars

\* a transaction with one transparent input and without shielded data was
\* dropped, with a ledger that was not empty
C6_Witness ==
    /\ last_fix.called
    /\ ~last_fix.panicked
    /\ ~last_fix.kept
    /\ Len(last_fix.candidate.inputs) = 1
    /\ ~HasShieldedOutputs(last_fix.candidate)
    /\ last_fix.transaction.inputs = <<>>
    /\ DOMAIN last_fix.utxos_before # {}

\* the commitment of the i-th block of the chain
CommitmentOf(i) == chain[i].block.header.commitment_bytes

\* the block the loop is done with in this step
EmittedBlock == chain'[Len(chain')].block

\* the root of the history tree before the block of this step: the tree
\* holds the blocks the loop was done with before, and without a tree the
\* root is [0u8; 32]
HistoryRootBefore ==
    IF chain = <<>> THEN ZeroBytes
    ELSE <<"history_root",
           [k \in DOMAIN chain |->
               HistoryEntry(chain[k].block, history_tree.entries[k].sapling_root,
                            history_tree.entries[k].orchard_root)]>>

\* C7 as stated: a block at the Heartwood activation height has an all-zero
\* commitment, whatever the candidate header carried.
C7_ActivationBlockHasZeroCommitment ==
    \A i \in DOMAIN chain :
        chain[i].height = HeartwoodActivationHeight(network) =>
            CommitmentOf(i) = ZeroBytes

\* C7, amended: when generate_valid_commitments is set, a block at the
\* Heartwood activation height has an all-zero commitment, whatever the
\* trees hold and whatever the candidate header carried.
C7_ActivationBlockHasZeroCommitment_WhenGenerated ==
    \A i \in DOMAIN chain :
        (generate_valid_commitments
         /\ chain[i].height = HeartwoodActivationHeight(network)) =>
            CommitmentOf(i) = ZeroBytes

\* the second block of a chain is at the Heartwood activation height: the
\* history tree holds the first block, and a note commitment tree is not empty
C7_Witness ==
    /\ generate_valid_commitments
    /\ Len(chain) = 2
    /\ chain[2].height = HeartwoodActivationHeight(network)
    /\ history_tree.present
    /\ sapling_tree # EmptyNoteCommitmentTree
    /\ CommitmentOf(2) = ZeroBytes

\* the block of this step is above Heartwood and below NU5
AboveHeartwoodBelowNu5 ==
    /\ height > HeartwoodActivationHeight(network)
    /\ Nu5ActivationHeight(network) = NoHeight \/ height < Nu5ActivationHeight(network)

\* C8 as stated: the commitment of a block above the Heartwood activation
\* height, with NU5 undefined or the block below the NU5 activation height,
\* is the root of the history tree before the block, and all-zero when
\* there is no history tree yet.
C8_CommitmentIsHistoryRoot ==
    [][(chain' # chain /\ AboveHeartwoodBelowNu5) =>
          EmittedBlock.header.commitment_bytes = HistoryRootBefore]_vars

\* C8, amended: when generate_valid_commitments is set, the commitment of a
\* block above the Heartwood activation height, with NU5 undefined or the
\* block below the NU5 activation height, is the root of the history tree
\* before the block, and all-zero when there is no history tree yet.
C8_CommitmentIsHistoryRoot_WhenGenerated ==
    [][(chain' # chain /\ generate_valid_commitments /\ AboveHeartwoodBelowNu5) =>
          EmittedBlock.header.commitment_bytes = HistoryRootBefore]_vars

\* a block above Heartwood and below NU5 carries the root of a history tree
\* that holds the block before it
C8_Witness ==
    /\ generate_valid_commitments
    /\ Len(chain) = 2
    /\ chain[2].height > HeartwoodActivationHeight(network)
    /\ Nu5ActivationHeight(network) = NoHeight
          \/ chain[2].height < Nu5ActivationHeight(network)
    /\ CommitmentOf(2)[1] = "history_root"

\* the commitment of NU5: the digest of the root of the history tree before
\* the block of this step and of the authorizing data root of the
\* transactions the block is emitted with
Nu5CommitmentOfEmittedBlock ==
    <<"block_commitments", HistoryRootBefore,
      <<"auth_data_root", EmittedBlock.transactions>>>>

\* C9 as stated: for every Heartwood and NU5 activation height, the
\* commitment of a block at or above the NU5 activation height is the
\* digest of the history tree root before the block and of the authorizing
\* data root of the transactions that were kept.
C9_CommitmentIsNu5Digest ==
    [][(/\ chain' # chain
        /\ Nu5ActivationHeight(network) # NoHeight
        /\ height >= Nu5ActivationHeight(network)) =>
          EmittedBlock.header.commitment_bytes = Nu5CommitmentOfEmittedBlock]_vars

\* C9, amended: when generate_valid_commitments is set, the commitment of a
\* block at or above the NU5 activation height and above the Heartwood
\* activation height is the digest of the history tree root before the
\* block and of the authorizing data root of the transactions that were kept.
C9_CommitmentIsNu5Digest_AboveHeartwood ==
    [][(/\ chain' # chain
        /\ generate_valid_commitments
        /\ Nu5ActivationHeight(network) # NoHeight
        /\ height >= Nu5ActivationHeight(network)
        /\ height > HeartwoodActivationHeight(network)) =>
          EmittedBlock.header.commitment_bytes = Nu5CommitmentOfEmittedBlock]_vars

\* a block at or above NU5 and above Heartwood is emitted without one of
\* its candidate transactions, and its commitment is over the one it kept
C9_Witness ==
    /\ generate_valid_commitments
    /\ pc = "block"
    /\ Len(chain) = 2
    /\ Nu5ActivationHeight(network) # NoHeight
    /\ chain[2].height >= Nu5ActivationHeight(network)
    /\ chain[2].height > HeartwoodActivationHeight(network)
    /\ tx_index_in_block = 2
    /\ Len(chain[2].block.transactions) = 1
    /\ CommitmentOf(2)[1] = "block_commitments"
    /\ CommitmentOf(2)[3] = <<"auth_data_root", chain[2].block.transactions>>

\* C10 as stated: the commitment of a block below the Heartwood activation
\* height is [0u8; 32] with byte 0 set to 1.
C10_PreHeartwoodPlaceholder ==
    \A i \in DOMAIN chain :
        chain[i].height < HeartwoodActivationHeight(network) =>
            CommitmentOf(i) = PreHeartwoodPlaceholder

\* C10, amended: when generate_valid_commitments is set, the commitment of a
\* block below the Heartwood activation height is [0u8; 32] with byte 0 set
\* to 1, whatever the trees hold and whatever the candidate header carried.
C10_PreHeartwoodPlaceholder_WhenGenerated ==
    \A i \in DOMAIN chain :
        (generate_valid_commitments
         /\ chain[i].height < HeartwoodActivationHeight(network)) =>
            CommitmentOf(i) = PreHeartwoodPlaceholder

\* the second block of a chain is below the Heartwood activation height, and
\* the history tree holds the first block
C10_Witness ==
    /\ generate_valid_commitments
    /\ Len(chain) = 2
    /\ chain[2].height < HeartwoodActivationHeight(network)
    /\ history_tree.present
    /\ CommitmentOf(2) = PreHeartwoodPlaceholder

\* the value of the commitment table for the block of this step; the rows
\* of the Heartwood activation height and below come before the row of NU5
CommitmentTableValue ==
    IF height < HeartwoodActivationHeight(network) THEN PreHeartwoodPlaceholder
    ELSE IF height = HeartwoodActivationHeight(network) THEN ZeroBytes
    ELSE IF Nu5ActivationHeight(network) # NoHeight
            /\ height >= Nu5ActivationHeight(network)
    THEN Nu5CommitmentOfEmittedBlock
    ELSE HistoryRootBefore

\* C11 as stated: under every setting of the parameters, the commitment of
\* an emitted block is the value of the commitment table, and not the value
\* the candidate header carried.
C11_CommitmentIsDerived ==
    [][chain' # chain =>
          EmittedBlock.header.commitment_bytes = CommitmentTableValue]_vars

\* C11, amended: when generate_valid_commitments is set, the commitment of
\* an emitted block is the value of the commitment table, whatever the
\* candidate header carried; when it is not set, the commitment is the one
\* the candidate header carried.
C11_CommitmentIsDerived_WhenGenerated ==
    [][chain' # chain =>
          EmittedBlock.header.commitment_bytes =
              IF generate_valid_commitments THEN CommitmentTableValue
              ELSE block.header.commitment_bytes]_vars

\* two blocks are emitted with derived commitments of two rows of the table,
\* none of them the value only a candidate header carries
C11_Witness ==
    /\ generate_valid_commitments
    /\ Len(chain) = 2
    /\ CommitmentOf(1) = ZeroBytes
    /\ chain[1].height = HeartwoodActivationHeight(network)
    /\ CommitmentOf(2)[1] = "block_commitments"

\* C12 as stated: no call of find_valid_utxo_for_spend calls the validity
\* check more than 100 times, the second call of a turn (with the transparent
\* outputs deleted) counted.
C12_AtMostMaxAttemptsProbes ==
    \A i \in DOMAIN last_fix.calls : last_fix.calls[i].probes <= MaxAttempts

\* C12, amended: a call of find_valid_utxo_for_spend makes at most 100 turns
\* of its loop; it calls the validity check at most 100 times for a
\* transaction without shielded outputs and at most 200 times for one with
\* shielded outputs, which has a second call in every turn.
C12_AtMostTwoProbesPerAttempt ==
    \A i \in DOMAIN last_fix.calls :
        /\ last_fix.calls[i].probes <= 2 * MaxAttempts
        /\ ~HasShieldedOutputs(last_fix.candidate) =>
              last_fix.calls[i].probes <= MaxAttempts

\* a call gave up after 100 turns with two calls of the validity check each
C12_Witness ==
    /\ last_fix.called
    /\ \E i \in DOMAIN last_fix.calls :
          /\ last_fix.calls[i].outpoint = NoOutPoint
          /\ last_fix.calls[i].probes = 2 * MaxAttempts

\* the entries of the ledger before the last call of
\* fix_generated_transaction that pass the validity check under the
\* restriction the transaction starts with
PassingEntries ==
    {op \in DOMAIN last_fix.utxos_before :
        CheckTransparentCoinbaseSpend(check, op,
            CoinbaseSpendRestriction(last_fix.candidate, last_fix.height),
            last_fix.utxos_before[op])}

\* C13: the selector tests one entry of the ledger after the other: when an
\* entry of a ledger of at most 100 entries passes the validity check under
\* the current restriction, the first call of the selector for a transaction
\* returns an outpoint that passes it, even when entries before it fail.
C13_SelectorFindsPassingEntry ==
    (/\ last_fix.called
     /\ last_fix.calls # <<>>
     /\ Cardinality(DOMAIN last_fix.utxos_before) <= MaxAttempts
     /\ PassingEntries # {}) =>
        last_fix.calls[1].outpoint \in PassingEntries

\* C14: partial_chain_strategy emits exactly `count` blocks, the i-th one
\* processed at the start height plus i (counted from 0); a block the loop
\* is done with stays in the chain as it is, also when all of its
\* transactions were dropped.
C14_CountBlocksWithIncreasingHeights ==
    /\ [](/\ Len(chain) <= count
          /\ pc = "done" => Len(chain) = count
          /\ \A i \in DOMAIN chain : chain[i].height = start_height + (i - 1)
          /\ pc = "transactions" => height = start_height + Len(chain)
          /\ (last_fix.called /\ pc = "transactions") => last_fix.height <= height)
    /\ [][/\ Len(chain') >= Len(chain)
          /\ SubSeq(chain', 1, Len(chain)) = chain]_vars

\* a chain of two blocks is emitted, the first one without transactions
C14_Witness ==
    /\ pc = "done"
    /\ count = 2
    /\ Len(chain) = 2
    /\ chain[1].block.transactions = <<>>
    /\ chain[2].height = chain[1].height + 1

\* tx is what the fixer can make of candidate: the shielded data is the
\* candidate's, and no input or output is added
IsFixOf(tx, candidate) ==
    /\ tx.sapling_spends = candidate.sapling_spends
    /\ tx.sapling_note_commitments = candidate.sapling_note_commitments
    /\ tx.orchard_note_commitments = candidate.orchard_note_commitments
    /\ Len(tx.inputs) <= Len(candidate.inputs)
    /\ Len(tx.outputs) <= Len(candidate.outputs)

\* C15: the transactions of an emitted block are the fixed candidate
\* transactions that were kept, in the order of the candidates: every turn
\* of the loop over the candidates pushes the fixed candidate of the turn or
\* nothing, and the block is emitted with the transactions pushed.
C15_KeptTransactionsAreSubsequence ==
    [][/\ FixStep =>
             /\ last_fix'.candidate \in CandidateTransactions(height)
             /\ last_fix'.tx_index_in_block = tx_index_in_block
             /\ \/ new_transactions' = new_transactions
                \/ /\ new_transactions' =
                          Append(new_transactions, last_fix'.transaction)
                   /\ IsFixOf(last_fix'.transaction, last_fix'.candidate)
             /\ Len(new_transactions') <= tx_index_in_block'
       /\ chain' # chain => EmittedBlock.transactions = new_transactions
       /\ (~FixStep /\ chain' = chain) =>
             (new_transactions' = new_transactions \/ new_transactions' = <<>>)]_vars

\* a block is emitted with the second of its two candidates only
C15_Witness ==
    /\ pc = "block"
    /\ chain # <<>>
    /\ tx_index_in_block = 2
    /\ last_fix.tx_index_in_block = 1
    /\ last_fix.kept
    /\ LastBlock.transactions = <<last_fix.transaction>>

\* the outpoints the selector returned in the calls before the i-th one of
\* the last call of fix_generated_transaction
SelectedBefore(i) ==
    {last_fix.calls[j].outpoint : j \in 1..(i - 1)} \ {NoOutPoint}

\* C16: with allow_all_transparent_coinbase_spends, a call of the selector
\* returns an outpoint exactly when the ledger is not empty, after one call
\* of the check and with the outputs and the restriction of the transaction
\* as they were; the fixer keeps the input with that outpoint and removes
\* the outpoint from the ledger.
C16_AllowAllSelectsWhenLedgerNotEmpty ==
    (check = "AllowAll" /\ last_fix.called) =>
        /\ \A i \in DOMAIN last_fix.calls :
              /\ last_fix.calls[i].outpoint # NoOutPoint <=>
                    (DOMAIN last_fix.utxos_before) \ SelectedBefore(i) # {}
              /\ last_fix.calls[i].outpoint # NoOutPoint =>
                    /\ last_fix.calls[i].probes = 1
                    /\ last_fix.calls[i].outpoint
                          \in (DOMAIN last_fix.utxos_before) \ SelectedBefore(i)
                    /\ last_fix.calls[i].outputs = last_fix.candidate.outputs
                    /\ last_fix.calls[i].spend_restriction =
                          CoinbaseSpendRestriction(last_fix.candidate, last_fix.height)
              /\ last_fix.calls[i].outpoint = NoOutPoint =>
                    last_fix.calls[i].probes = 0
        /\ ~last_fix.panicked =>
              /\ PrevOuts(last_fix.transaction) =
                    SelectedBefore(Len(last_fix.calls) + 1)
              /\ PrevOuts(last_fix.transaction) # {} => last_fix.kept
              /\ PrevOuts(last_fix.transaction) \cap DOMAIN utxos = {}

\* a transaction of the second block spends the output of the coinbase
\* transaction of the first block
C16_Witness ==
    /\ check = "AllowAll"
    /\ Len(chain) = 1
    /\ last_fix.called
    /\ last_fix.kept
    /\ last_fix.height = start_height + 1
    /\ \E op \in PrevOuts(last_fix.transaction) :
          /\ last_fix.utxos_before[op].from_coinbase
          /\ last_fix.utxos_before[op].height = start_height
          /\ op \notin DOMAIN utxos
    /\ chain_value_pools.transparent >= 0

\* C17: the history tree whose root goes into the commitment of a block
\* holds exactly the blocks the loop was done with before, and not the block
\* itself; the block is put into the history tree with its commitment written.
C17_HistoryRootIsOfEarlierBlocks ==
    [][(chain' # chain /\ generate_valid_commitments) =>
          /\ history_tree.present <=> chain # <<>>
          /\ Len(history_tree.entries) = Len(chain)
          /\ \A k \in DOMAIN chain : history_tree.entries[k].block = chain[k].block
          /\ height > HeartwoodActivationHeight(network) =>
                \/ EmittedBlock.header.commitment_bytes = HistoryTreeRoot(history_tree)
                \/ EmittedBlock.header.commitment_bytes =
                      BlockCommitments(HistoryTreeRoot(history_tree),
                                       AuthDataRoot(EmittedBlock))
          /\ history_tree'.present
          /\ history_tree'.entries =
                Append(history_tree.entries,
                       HistoryEntry(EmittedBlock, SaplingRoot(sapling_tree),
                                    OrchardRoot(orchard_tree)))]_vars

\* the commitment of the second block above Heartwood is over a history
\* tree that holds the first block only, and the tree holds both blocks
C17_Witness ==
    /\ generate_valid_commitments
    /\ Len(chain) = 2
    /\ chain[2].height > HeartwoodActivationHeight(network)
    /\ Len(history_tree.entries) = 2
    /\ history_tree.entries[2].block = chain[2].block
    /\ \/ CommitmentOf(2) = <<"history_root", <<history_tree.entries[1]>> >>
       \/ /\ CommitmentOf(2)[1] = "block_commitments"
          /\ CommitmentOf(2)[2] = <<"history_root", <<history_tree.entries[1]>> >>

\* the Sapling and the Orchard note commitments of a sequence of transactions
RECURSIVE SaplingNotesOf(_)
SaplingNotesOf(transactions) ==
    IF transactions = <<>> THEN <<>>
    ELSE Head(transactions).sapling_note_commitments \o SaplingNotesOf(Tail(transactions))

RECURSIVE OrchardNotesOf(_)
OrchardNotesOf(transactions) ==
    IF transactions = <<>> THEN <<>>
    ELSE Head(transactions).orchard_note_commitments \o OrchardNotesOf(Tail(transactions))

\* the note commitments of the first k blocks of the chain, those of a block
\* at height 0 left out
RECURSIVE ChainSaplingNotes(_)
ChainSaplingNotes(k) ==
    IF k = 0 THEN <<>>
    ELSE ChainSaplingNotes(k - 1)
         \o (IF chain[k].height = 0 THEN <<>>
             ELSE SaplingNotesOf(chain[k].block.transactions))

RECURSIVE ChainOrchardNotes(_)
ChainOrchardNotes(k) ==
    IF k = 0 THEN <<>>
    ELSE ChainOrchardNotes(k - 1)
         \o (IF chain[k].height = 0 THEN <<>>
             ELSE OrchardNotesOf(chain[k].block.transactions))

\* C18 as stated: a block that is not the first one is put into the history
\* tree with the roots of the note commitment trees before the note
\* commitments of the block itself were appended.
C18_HistoryRootsBeforeOwnNotes ==
    \A k \in DOMAIN history_tree.entries :
        k >= 2 =>
            /\ history_tree.entries[k].sapling_root =
                  SaplingRoot(ChainSaplingNotes(k - 1))
            /\ history_tree.entries[k].orchard_root =
                  OrchardRoot(ChainOrchardNotes(k - 1))

\* C18, amended: every block is put into the history tree with the roots of
\* the note commitment trees after the note commitments of the kept
\* transactions of the block itself were appended.
C18_HistoryRootsAfterOwnNotes ==
    \A k \in DOMAIN history_tree.entries :
        /\ history_tree.entries[k].sapling_root = SaplingRoot(ChainSaplingNotes(k))
        /\ history_tree.entries[k].orchard_root = OrchardRoot(ChainOrchardNotes(k))

\* the second block of a chain has a note commitment of its own, and is in
\* the history tree
C18_Witness ==
    /\ generate_valid_commitments
    /\ Len(chain) = 2
    /\ Len(history_tree.entries) = 2
    /\ SaplingNotesOf(chain[2].block.transactions) # <<>>
    /\ history_tree.entries[2].sapling_root = SaplingRoot(sapling_tree)

\* the inputs the fixer is to leave of `inputs`, when the calls of the
\* selector for the inputs with a prior-output reference returned `calls`:
\* an input without a prior-output reference as it is, an input the selector
\* found an outpoint for with that outpoint, and no other input
RECURSIVE InputsAfterCalls(_, _)
InputsAfterCalls(inputs, calls) ==
    IF inputs = <<>> THEN <<>>
    ELSE IF Head(inputs).outpoint = NoOutPoint
    THEN <<Head(inputs)>> \o InputsAfterCalls(Tail(inputs), calls)
    ELSE IF Head(calls).outpoint # NoOutPoint
    THEN <<[Head(inputs) EXCEPT !.outpoint = Head(calls).outpoint]>>
         \o InputsAfterCalls(Tail(inputs), Tail(calls))
    ELSE InputsAfterCalls(Tail(inputs), Tail(calls))

\* C19: a call of the selector that finds nothing drops the input it was
\* made for and no other: the inputs without a prior-output reference are
\* kept as they are, the inputs the selector found an outpoint for are kept
\* with that outpoint, and the inputs kept are in the order of the candidate.
C19_OnlyTheFailedInputIsDropped ==
    last_fix.called =>
        /\ Len(last_fix.calls) = PrevOutCount(last_fix.candidate)
        /\ last_fix.transaction.inputs =
              InputsAfterCalls(last_fix.candidate.inputs, last_fix.calls)

\* the selector found nothing for the first input of a transaction, and the
\* coinbase input after it was kept
C19_Witness ==
    /\ last_fix.called
    /\ Len(last_fix.candidate.inputs) = 2
    /\ last_fix.candidate.inputs[1].outpoint # NoOutPoint
    /\ last_fix.calls[1].outpoint = NoOutPoint
    /\ last_fix.transaction.inputs = <<last_fix.candidate.inputs[2]>>
    /\ last_fix.candidate.inputs[2].outpoint = NoOutPoint

\* C20: while and after a block at height 0 is processed, the ledger is
\* empty, the chain value pools are zero and the note commitment trees are
\* empty, as they were before the block; the transactions of the block that
\* were kept are in the emitted block.
C20_GenesisBlockLeavesStateUnchanged ==
    [][(height = 0 /\ height' = 0) =>
          /\ utxos' = utxos
          /\ utxos' = EmptyUtxos
          /\ chain_value_pools' = chain_value_pools
          /\ chain_value_pools' = ZeroValueBalance
          /\ sapling_tree' = sapling_tree
          /\ sapling_tree' = EmptyNoteCommitmentTree
          /\ orchard_tree' = orchard_tree
          /\ orchard_tree' = EmptyNoteCommitmentTree
          /\ (FixStep /\ last_fix'.kept) =>
                new_transactions' = Append(new_transactions, last_fix'.transaction)
          /\ chain' # chain => EmittedBlock.transactions = new_transactions]_vars

\* a block at height 0 is emitted with a coinbase transaction with an output
\* and a transaction with an Orchard note commitment
C20_Witness ==
    /\ generate_valid_commitments
    /\ pc = "block"
    /\ Len(chain) = 1
    /\ chain[1].height = 0
    /\ Len(chain[1].block.transactions) = 2
    /\ chain[1].block.transactions[1].outputs # <<>>
    /\ chain[1].block.transactions[2].orchard_note_commitments # <<>>
    /\ utxos = EmptyUtxos
    /\ orchard_tree = EmptyNoteCommitmentTree

\* the outpoints of the transparent outputs of tx: its hash and the index
\* of the output, counted from 0
OutPointsOf(tx) == {OutPoint(TxHash(tx), i - 1) : i \in DOMAIN tx.outputs}

\* C21: after fix_generated_transaction kept a transaction at a height above
\* 0, the ledger holds an entry for every transparent output the transaction
\* is returned with, under the hash of the returned transaction and the
\* index of the output, with the value of the output, the height and the
\* index of the transaction in its block; no other entry is added, and the
\* entries that stay are as they were.
C21_KeptOutputsAreRecorded ==
    (last_fix.called /\ last_fix.kept /\ last_fix.height > 0) =>
        /\ \A i \in DOMAIN last_fix.transaction.outputs :
              /\ OutPoint(TxHash(last_fix.transaction), i - 1) \in DOMAIN utxos
              /\ utxos[OutPoint(TxHash(last_fix.transaction), i - 1)] =
                    OrderedUtxo(last_fix.transaction.outputs[i], last_fix.height,
                                IsCoinbase(last_fix.transaction),
                                last_fix.tx_index_in_block)
        /\ OutPointsOf(last_fix.transaction) \subseteq DOMAIN utxos
        /\ (DOMAIN utxos) \ (DOMAIN last_fix.utxos_before)
              \subseteq OutPointsOf(last_fix.transaction)
        /\ \A op \in (DOMAIN utxos) \ OutPointsOf(last_fix.transaction) :
              utxos[op] = last_fix.utxos_before[op]

\* the second transaction of a block above height 0 spent an entry of the
\* ledger and was kept with a transparent output, which is in the ledger
C21_Witness ==
    /\ last_fix.called
    /\ last_fix.kept
    /\ last_fix.height > 0
    /\ last_fix.tx_index_in_block = 1
    /\ PrevOuts(last_fix.transaction) # {}
    /\ Len(last_fix.transaction.outputs) = 1
    /\ Cardinality(DOMAIN utxos) = Cardinality(DOMAIN last_fix.utxos_before)
    /\ OutPoint(TxHash(last_fix.transaction), 0) \in DOMAIN utxos
    /\ OutPoint(TxHash(last_fix.transaction), 0) \notin DOMAIN last_fix.utxos_before

\* the note commitments of the transactions that were kept at a height
\* other than 0, in the order of the transactions and of the note
\* commitments of a transaction: those of the blocks the loop is done with,
\* and those of the block in the loop
KeptSaplingNotes ==
    ChainSaplingNotes(Len(chain))
    \o (IF height = 0 THEN <<>> ELSE SaplingNotesOf(new_transactions))

KeptOrchardNotes ==
    ChainOrchardNotes(Len(chain))
    \o (IF height = 0 THEN <<>> ELSE OrchardNotesOf(new_transactions))

\* C22 as stated: the note commitment trees hold exactly the note
\* commitments of the transactions that were kept at a height other than 0,
\* in transaction order and then in the order of the note commitments of a
\* transaction.
C22_TreesHoldKeptNotes ==
    /\ sapling_tree = KeptSaplingNotes
    /\ orchard_tree = KeptOrchardNotes

\* C22, amended: when generate_valid_commitments is set, the note commitment
\* trees hold exactly the note commitments of the transactions that were
\* kept at a height other than 0, in transaction order and then in the order
\* of the note commitments of a transaction; when it is not set, they stay
\* empty.  In both cases a step only appends to the trees, and nothing is
\* appended for a dropped transaction or at height 0.
C22_TreesHoldKeptNotes_WhenGenerated ==
    /\ [](/\ sapling_tree =
                IF generate_valid_commitments THEN KeptSaplingNotes
                ELSE EmptyNoteCommitmentTree
          /\ orchard_tree =
                IF generate_valid_commitments THEN KeptOrchardNotes
                ELSE EmptyNoteCommitmentTree)
    /\ [][/\ Len(sapling_tree') >= Len(sapling_tree)
          /\ SubSeq(sapling_tree', 1, Len(sapling_tree)) = sapling_tree
          /\ Len(orchard_tree') >= Len(orchard_tree)
          /\ SubSeq(orchard_tree', 1, Len(orchard_tree)) = orchard_tree
          /\ (~FixStep \/ ~last_fix'.kept \/ height = 0) =>
                (sapling_tree' = sapling_tree /\ orchard_tree' = orchard_tree)]_vars

\* the Sapling tree holds the note commitments of two transactions, one of
\* them with two note commitments, and a transaction with note commitments
\* was dropped
C22_Witness ==
    /\ generate_valid_commitments
    /\ Len(sapling_tree) >= 2
    /\ Len(sapling_tree) >= 3
    /\ sapling_tree[1] # sapling_tree[2]
    /\ sapling_tree[2] # sapling_tree[3]
    /\ last_fix.called
    /\ ~last_fix.kept
    /\ ~last_fix.panicked
    /\ HasShieldedOutputs(last_fix.candidate)

\* the restriction and the transparent outputs of the transaction before
\* the i-th call of the selector in the last call of
\* fix_generated_transaction: those of the candidate before the first call,
\* and those the call before left
RestrictionBefore(i) ==
    IF i = 1 THEN CoinbaseSpendRestriction(last_fix.candidate, last_fix.height)
    ELSE last_fix.calls[i - 1].spend_restriction

OutputsBefore(i) ==
    IF i = 1 THEN last_fix.candidate.outputs ELSE last_fix.calls[i - 1].outputs

\* the first check of the i-th call, and the check with the transparent
\* outputs deleted, on the entry the call tests
FirstCheckPasses(i) ==
    CheckTransparentCoinbaseSpend(check, last_fix.calls[i].candidate,
        RestrictionBefore(i), last_fix.utxos_before[last_fix.calls[i].candidate])

RetryPasses(i) ==
    CheckTransparentCoinbaseSpend(check, last_fix.calls[i].candidate,
        OnlyShieldedOutputs(last_fix.height),
        last_fix.utxos_before[last_fix.calls[i].candidate])

\* the i-th call left the outputs and the restriction as they were
CallLeftUnchanged(i) ==
    /\ last_fix.calls[i].outputs = OutputsBefore(i)
    /\ last_fix.calls[i].spend_restriction = RestrictionBefore(i)

\* C23: a call of the selector checks its entry a second time, with the
\* transparent outputs deleted, only when the first check fails and the
\* transaction has shielded outputs; when the second check passes, the
\* transparent outputs of the transaction are deleted, the restriction of
\* the caller becomes OnlyShieldedOutputs for the calls that follow, and the
\* entry is returned; when the first check passes, or nothing is returned,
\* the outputs and the restriction are as they were.
C23_RetryOnlyWithShieldedOutputs ==
    last_fix.called =>
        /\ \A i \in DOMAIN last_fix.calls :
              IF last_fix.calls[i].candidate = NoOutPoint
              THEN /\ last_fix.calls[i].outpoint = NoOutPoint
                   /\ last_fix.calls[i].probes = 0
                   /\ CallLeftUnchanged(i)
              ELSE IF FirstCheckPasses(i)
              THEN /\ last_fix.calls[i].outpoint = last_fix.calls[i].candidate
                   /\ last_fix.calls[i].probes = 1
                   /\ CallLeftUnchanged(i)
              ELSE IF HasShieldedOutputs(last_fix.candidate) /\ RetryPasses(i)
              THEN /\ last_fix.calls[i].outpoint = last_fix.calls[i].candidate
                   /\ last_fix.calls[i].probes = 2
                   /\ last_fix.calls[i].outputs = <<>>
                   /\ last_fix.calls[i].spend_restriction =
                         OnlyShieldedOutputs(last_fix.height)
              ELSE /\ last_fix.calls[i].outpoint = NoOutPoint
                   /\ ~HasShieldedOutputs(last_fix.candidate) =>
                         last_fix.calls[i].probes = MaxAttempts
                   /\ HasShieldedOutputs(last_fix.candidate) =>
                         last_fix.calls[i].probes = 2 * MaxAttempts
                   /\ CallLeftUnchanged(i)
        /\ last_fix.calls # <<>> =>
              last_fix.spend_restriction =
                  last_fix.calls[Len(last_fix.calls)].spend_restriction

\* the first call of the selector for a transaction with a transparent
\* output returned an entry on the second check, and the second call
\* returned an entry on its first check under the restriction the first
\* call left
C23_Witness ==
    /\ last_fix.called
    /\ last_fix.kept
    /\ Len(last_fix.calls) = 2
    /\ last_fix.candidate.outputs # <<>>
    /\ last_fix.calls[1].outpoint # NoOutPoint
    /\ last_fix.calls[1].probes = 2
    /\ last_fix.calls[1].spend_restriction = OnlyShieldedOutputs(last_fix.height)
    /\ last_fix.calls[2].outpoint # NoOutPoint
    /\ last_fix.calls[2].probes = 1
    /\ last_fix.calls[2].spend_restriction = OnlyShieldedOutputs(last_fix.height)
    /\ last_fix.transaction.outputs = <<>>

\* C24 as stated: when the value fix of a transaction fails, the run ends
\* without a chain, and the message of the panic names the height of the
\* block and the index of the transaction in its block.
C24_ValueFixPanicNamesHeightAndIndex ==
    last_fix.panicked =>
        /\ pc = "panicked"
        /\ \E k \in DOMAIN panic_message :
              panic_message[k] = <<"height", last_fix.height>>
        /\ \E k \in DOMAIN panic_message :
              panic_message[k] = <<"tx_index_in_block", last_fix.tx_index_in_block>>

\* the sum of the values of the outputs of the entries of a ledger
RECURSIVE LedgerValue(_)
LedgerValue(map) ==
    IF DOMAIN map = {} THEN 0
    ELSE map[CHOOSE op \in DOMAIN map : TRUE].output
         + LedgerValue(RemoveUtxo(map, CHOOSE op \in DOMAIN map : TRUE))

\* C25: after every call of fix_generated_transaction that returned, the
\* transparent balance of the chain value pools is the sum of the values of
\* the outputs in the ledger.
C25_TransparentPoolIsLedgerValue ==
    (last_fix.called /\ ~last_fix.panicked) =>
        chain_value_pools.transparent = LedgerValue(utxos)

\* the number of responses taken from the FuturesUnordered
ResponsesTaken == submitted - Cardinality(in_flight) - Len(completed)

\* C26: verify_orchard_halo2_proofs hands every item to the verifier before
\* it takes a response, and takes the responses in the order they complete.
\* It returns Ok only after it has taken every response and every one is
\* Ok; it returns Err with the first Err it takes, and with the error of a
\* readiness wait.  When every readiness wait succeeds, a batch of valid
\* items yields Ok and a batch with an invalid item yields Err, whatever the
\* order the responses complete in.
C26_OkExactlyWhenEveryItemIsValid ==
    /\ [](/\ halo2_result = "none" <=> halo2_pc # "done"
          /\ ResponsesTaken > 0 => submitted = Len(shielded_data)
          /\ (halo2_pc = "done" /\ halo2_result = "Ok") =>
                /\ \A i \in DOMAIN shielded_data : shielded_data[i]
                /\ ResponsesTaken = Len(shielded_data)
          /\ (halo2_pc = "done" /\ submitted = Len(shielded_data)) =>
                (halo2_result = "Ok" <=> \A i \in DOMAIN shielded_data : shielded_data[i])
          /\ (halo2_pc = "done" /\ submitted < Len(shielded_data)) =>
                (halo2_result = "Err" /\ ResponsesTaken = 0))
    /\ [][/\ Len(completed') < Len(completed) =>
                /\ completed' = Tail(completed)
                /\ halo2_pc' = "done" <=> ~shielded_data[Head(completed)]
          /\ (Len(completed') > Len(completed)) =>
                SubSeq(completed', 1, Len(completed)) = completed]_vars

\* a batch of three items with an invalid one yields Err with the first
\* response taken, which is not the one of the first call: the response of
\* the first call completed after it and is not taken, and a response has
\* not completed
C26_Witness ==
    /\ halo2_pc = "done"
    /\ halo2_result = "Err"
    /\ Len(shielded_data) = MaxItems
    /\ submitted = MaxItems
    /\ ResponsesTaken = 1
    /\ completed = <<1>>
    /\ in_flight # {}

\* C27: a call of fix_generated_transaction that returns None leaves the
\* ledger and the chain value pools as they were before the call: no entry
\* is removed, none is added, and no balance changes.
C27_DroppedTransactionChangesNothing ==
    /\ [][(FixStep /\ ~last_fix'.kept) =>
             /\ utxos' = utxos
             /\ chain_value_pools' = chain_value_pools]_vars
    /\ []((last_fix.called /\ ~last_fix.kept /\ ~last_fix.panicked) =>
             /\ utxos = last_fix.utxos_before
             /\ chain_value_pools = last_fix.pools_before
             /\ \A i \in DOMAIN last_fix.calls :
                   last_fix.calls[i].outpoint = NoOutPoint)

\* a transaction with transparent outputs was dropped at a height above 0
\* after the selector gave up on a ledger that holds value
C27_Witness ==
    /\ last_fix.called
    /\ ~last_fix.kept
    /\ ~last_fix.panicked
    /\ last_fix.height > 0
    /\ last_fix.candidate.outputs # <<>>
    /\ last_fix.calls # <<>>
    /\ last_fix.calls[1].probes >= MaxAttempts
    /\ DOMAIN utxos # {}
    /\ chain_value_pools.transparent > 0

\* tx has an input without a prior-output reference
HasCoinbaseInput(tx) ==
    \E i \in DOMAIN tx.inputs : tx.inputs[i].outpoint = NoOutPoint

\* C28: fix_generated_transaction never returns None for a transaction with
\* a coinbase input.  The coinbase transaction a candidate block starts with
\* is the first transaction pushed, stays the first one, and is the first
\* transaction of the emitted block, which is not empty; the coinbase height
\* of such a block is found.
C28_CoinbaseTransactionIsKept ==
    /\ []((last_fix.called /\ ~last_fix.panicked
           /\ HasCoinbaseInput(last_fix.candidate)) =>
             /\ last_fix.kept
             /\ HasCoinbaseInput(last_fix.transaction))
    /\ [][/\ (FixStep /\ tx_index_in_block = 0 /\ IsCoinbase(last_fix'.candidate)) =>
                /\ new_transactions' = <<last_fix'.transaction>>
                /\ last_fix'.transaction.inputs = last_fix'.candidate.inputs
          /\ (FixStep /\ new_transactions # <<>>) =>
                new_transactions'[1] = new_transactions[1]
          /\ chain' # chain => EmittedBlock.transactions = new_transactions
          /\ (new_transactions # <<>> /\ IsCoinbase(new_transactions[1])) =>
                panic_message' # UnwrapNoneMessage]_vars

\* a block is emitted with the coinbase transaction it started with as its
\* only transaction: its second transaction was dropped
C28_Witness ==
    /\ generate_valid_commitments
    /\ pc = "block"
    /\ Len(chain) = 1
    /\ tx_index_in_block = 2
    /\ last_fix.tx_index_in_block = 1
    /\ ~last_fix.kept
    /\ Len(LastBlock.transactions) = 1
    /\ IsCoinbase(LastBlock.transactions[1])
    /\ CoinbaseHeight(LastBlock) = chain[1].height

\* the places of the transactions of the chain: <<block, transaction>>
TxPlaces ==
    {q \in (DOMAIN chain) \X (1..MaxTransactions) :
        q[2] \in DOMAIN chain[q[1]].block.transactions}

TxAt(q) == chain[q[1]].block.transactions[q[2]]

\* the place q is before the transaction of the input place p
Earlier(q, p) == q[1] < p[1] \/ (q[1] = p[1] /\ q[2] < p[2])

SelectedUnderOnlyShielded(i) ==
    /\ last_fix.calls[i].outpoint # NoOutPoint
    /\ last_fix.calls[i].spend_restriction.kind = "OnlyShieldedOutputs"

\* C30: when the selector returned an entry for an input of a transaction
\* under OnlyShieldedOutputs, the transaction has no transparent outputs
\* after the fix of its inputs, and fix_generated_transaction puts no entry
\* into the ledger for it; an input the selector returned an entry for
\* before, under the restriction the transaction started with, is kept with
\* that entry and is not checked again.
C30_ShieldedOnlySelectionLeavesNoOutputs ==
    (/\ last_fix.called
     /\ ~last_fix.panicked
     /\ \E i \in DOMAIN last_fix.calls : SelectedUnderOnlyShielded(i)) =>
        /\ last_fix.transaction.outputs = <<>>
        /\ last_fix.kept
        /\ DOMAIN utxos =
              (DOMAIN last_fix.utxos_before) \ SelectedBefore(Len(last_fix.calls) + 1)
        /\ \A i \in DOMAIN last_fix.calls :
              last_fix.calls[i].outpoint # NoOutPoint =>
                  /\ last_fix.calls[i].outpoint \in PrevOuts(last_fix.transaction)
                  /\ last_fix.calls[i].probes <= 2
        /\ last_fix.transaction.inputs =
              InputsAfterCalls(last_fix.candidate.inputs, last_fix.calls)

\* the selector returned an entry for the first input under
\* SomeTransparentOutputs and one for the second input on the check with the
\* transparent outputs deleted; the first entry does not pass the check
\* under OnlyShieldedOutputs, and both inputs are kept
C30_Witness ==
    /\ last_fix.called
    /\ last_fix.kept
    /\ last_fix.height > 0
    /\ Len(last_fix.calls) = 2
    /\ last_fix.calls[1].outpoint # NoOutPoint
    /\ last_fix.calls[1].probes = 1
    /\ last_fix.calls[1].spend_restriction = SomeTransparentOutputs
    /\ last_fix.calls[1].outputs # <<>>
    /\ last_fix.calls[2].outpoint # NoOutPoint
    /\ last_fix.calls[2].probes = 2
    /\ ~CheckTransparentCoinbaseSpend(check, last_fix.calls[1].outpoint,
           OnlyShieldedOutputs(last_fix.height),
           last_fix.utxos_before[last_fix.calls[1].outpoint])
    /\ Len(last_fix.transaction.inputs) = 2
    /\ last_fix.transaction.outputs = <<>>

=============================================================================
